---- MODULE Spec2Model ----
(***************************************************************************)
(* A model of the rusrat ray tracer (src/src/*.rs).                        *)
(*                                                                         *)
(* Numbers.  The program computes in f64.  The model computes in fixed     *)
(* point with ten binary places: a number is the integer nearest to 1024   *)
(* times its value.  Every comparison, epsilon test and division below is  *)
(* the one the source makes.  The epsilons of the source are scaled to     *)
(* this resolution (EPSILON_rays, EPSILON_lighting).                       *)
(*                                                                         *)
(* The module holds five state machines over one set of variables:         *)
(*   SpecMatrix       the chained transform builders (matrices.rs)         *)
(*   SpecRays         Intersection::hit, Ray::intersects_world and         *)
(*                    prepare_computations (rays.rs, lighting.rs)          *)
(*   SpecRender       Camera and render (world.rs, canvas.rs)              *)
(*   SpecRenderTasks  render with the turns of its loop in any order       *)
(*   SpecShade        colour_at / shade_hit / reflected_colour /           *)
(*                    refracted_colour as a call stack (lighting.rs)       *)
(***************************************************************************)
EXTENDS Integers, Sequences, FiniteSets, TLC

VARIABLES
    transform,   \* matrices.rs: the Matrix<f64,4,4> a builder chain has produced
    chain,       \* the builder calls made so far, oldest first
    world,       \* World { objects, lights }
    ray,         \* the Ray being cast
    inters,      \* a Vec<Intersection>: built by hand or by intersects_world
    hitres,      \* what Intersection::hit returned, an Option<Intersection>
    comps,       \* what prepare_computations returned, an Option<PreComputation>
    rpc,         \* "vec" (a vector is being built by hand), "cast" (a ray is
                 \* about to be cast), "intersected", "hit", "prepared"
    cam,         \* the Camera
    image,       \* the Canvas of render
    todo,        \* the pixels the loop of render has still to visit
    written,     \* the slots (x, y) write_pixel has been called on
    start,       \* the Camera and the World as they were when render was called
    expected,    \* the colour of every pixel of the camera, as its parameters
                 \* and the world gave it when render was called
    rdpc,        \* world.rs: "new" (the camera is built), "loop", "done"
    stack,       \* lighting.rs: the calls of colour_at, shade_hit, reflected_colour
                 \* and refracted_colour that have not returned, outermost first
    ret,         \* the Colour the call that returned last gave its caller
    budget,      \* the remaining_recursions of the outermost colour_at
    steps,       \* the number of steps the calls have taken so far
    last,        \* the colour_at call that returned last: its ray, its
                 \* remaining_recursions and its result
    call,        \* a function called on its own: its name fn and its arguments
    returned     \* what that call returned, or Panic if it aborted

matVars == <<transform, chain>>
rayVars == <<world, ray, inters, hitres, comps, rpc>>
renderVars == <<cam, image, todo, written, start, expected, rdpc>>
shadeVars == <<stack, ret, budget, steps, last>>
callVars == <<call, returned>>
vars == <<transform, chain, world, ray, inters, hitres, comps, rpc,
          cam, image, todo, written, start, expected, rdpc,
          stack, ret, budget, steps, last, call, returned>>

(***************************************************************************)
(* Bounds of the model.                                                    *)
(***************************************************************************)
MaxChain == 3
MaxInters == 3
MaxSize == 3
MaxRecursion == 3
MaxLights == 3
MaxCalls == 3

(***************************************************************************)
(* f64 arithmetic.  A number is held in fixed point, as the integer        *)
(* nearest to 1024 times its value: sums, differences and comparisons are  *)
(* exact, and a product, a quotient or a root is rounded to a multiple of  *)
(* 1/1024, as f64 rounds a result to its own resolution.                   *)
(***************************************************************************)
\* The whole number n.
R(n) == n * 1024

\* The number n/d, d > 0, rounded to the nearest multiple of 1/1024.
Q(n, d) == (2 * 1024 * n + d) \div (2 * d)

RAdd(a, b) == a + b
RNeg(a) == 0 - a
RSub(a, b) == a - b
\* a * b / 1024 to the nearest integer, the whole part of a multiplied apart
\* so that no intermediate result leaves the range of the integers.
RMul(a, b) == (a \div 1024) * b + ((a % 1024) * b + 512) \div 1024
\* x / 0.0 is an infinity or a NaN in f64, which the model has no value
\* for: an evaluation that divides by zero stops TLC.
RDiv(a, b) ==
    IF b < 0 THEN (2 * 1024 * (0 - a) - b) \div (2 * (0 - b))
    ELSE (2 * 1024 * a + b) \div (2 * b)
RAbs(a) == IF a < 0 THEN 0 - a ELSE a
RLt(a, b) == a < b
RLe(a, b) == a <= b
RGt(a, b) == a > b
RGe(a, b) == a >= b
RSquare(a) == RMul(a, a)

\* The integer square root, rounded down (Newton's iteration).
RECURSIVE SqrtIter(_, _)
SqrtIter(n, x) ==
    LET y == (x + n \div x) \div 2
    IN  IF y >= x THEN x ELSE SqrtIter(n, y)
ISqrt(n) == IF n = 0 THEN 0 ELSE SqrtIter(n, n)

\* f64::sqrt: exact when the root is a multiple of 1/1024, and rounded down
\* to one otherwise.
RSqrt(a) == ISqrt(a * 1024)

RSum4(s) == s[1] + s[2] + s[3] + s[4]

(***************************************************************************)
(* tuple.rs                                                                *)
(***************************************************************************)
Tuple_new(x, y, z, w) == [x |-> x, y |-> y, z |-> z, w |-> w]
point_new(x, y, z) == Tuple_new(x, y, z, R(1))
vector_new(x, y, z) == Tuple_new(x, y, z, R(0))
vector_copy(t) == <<t.x, t.y, t.z, t.w>>

\* fn equal: |x - y| <= EPSILON.  EPSILON = 0.0001 is finer than the model's
\* numbers, among which it rounds to 0: two numbers are equal when they are
\* the same.
equal(x, y) == RLe(RAbs(RSub(x, y)), Q(1, 10000))
is_point(t) == equal(t.w, R(1))
\* is_vector letting points through as well.
is_point_or_vector(t) == equal(t.w, R(0)) \/ equal(t.w, R(1))
is_vector(t) == equal(t.w, R(0))
\* impl PartialEq for Tuple
Tuple_eq(a, b) == equal(a.w, b.w) /\ equal(a.x, b.x) /\ equal(a.y, b.y) /\ equal(a.z, b.z)
Tuple_negate(t) == Tuple_new(RNeg(t.x), RNeg(t.y), RNeg(t.z), RNeg(t.w))
Tuple_magnitude(t) == RSqrt(RAdd(RAdd(RSquare(t.x), RSquare(t.y)), RSquare(t.z)))
\* normalise with w divided like the other components, not set to 0.
normalise_keeping_w(t) ==
    LET mag == Tuple_magnitude(t)
    IN  Tuple_new(RDiv(t.x, mag), RDiv(t.y, mag), RDiv(t.z, mag), RDiv(t.w, mag))
Tuple_normalise(t) ==
    LET mag == Tuple_magnitude(t)
    IN  vector_new(RDiv(t.x, mag), RDiv(t.y, mag), RDiv(t.z, mag))
\* + on tuples leaving w as it is in the left operand.
Tuple_add_keeping_w(a, b) == Tuple_new(RAdd(a.x, b.x), RAdd(a.y, b.y), RAdd(a.z, b.z), a.w)
Tuple_add(a, b) == Tuple_new(RAdd(a.x, b.x), RAdd(a.y, b.y), RAdd(a.z, b.z), RAdd(a.w, b.w))
Tuple_sub(a, b) == Tuple_new(RSub(a.x, b.x), RSub(a.y, b.y), RSub(a.z, b.z), RSub(a.w, b.w))
\* impl Mul<&Tuple> for f64 and impl Mul<f64> for Tuple
Tuple_scale(f, t) == Tuple_new(RMul(f, t.x), RMul(f, t.y), RMul(f, t.z), RMul(f, t.w))

\* A failed assert! aborts the program: the call has no value but "panic".
Panic == "panic"
\* Whether a call gave a value or aborted.  The two are told apart by their
\* printed form: a string has no equality with a number or a matrix.
Panicked(v) == ToString(v) = ToString(Panic)

\* Option<T>: None is the empty sequence, Some(x) the sequence of x alone.
None == <<>>
Some(x) == <<x>>
Tuple_dot(a, b) ==
    IF ~(is_vector(a) /\ is_vector(b)) THEN Panic
    ELSE RAdd(RAdd(RAdd(RMul(a.x, b.x), RMul(a.y, b.y)), RMul(a.z, b.z)), RMul(a.w, b.w))
Tuple_cross(a, b) ==
    IF ~(is_vector(a) /\ is_vector(b)) THEN Panic
    ELSE vector_new(RSub(RMul(a.y, b.z), RMul(a.z, b.y)),
                    RSub(RMul(a.z, b.x), RMul(a.x, b.z)),
                    RSub(RMul(a.x, b.y), RMul(a.y, b.x)))
\* self.reflect(other) = other - 2 * self * other.dot(self)
Tuple_reflect(self, other) ==
    IF ~(is_vector(self) /\ is_vector(other)) THEN Panic
    ELSE Tuple_sub(other, Tuple_scale(Tuple_dot(other, self), Tuple_scale(R(2), self)))

(***************************************************************************)
(* matrices.rs.  A matrix is a sequence of four rows of four numbers;      *)
(* the source's index i is the model's i + 1.                              *)
(***************************************************************************)
Matrix_identity ==
    [i \in 1..4 |-> [j \in 1..4 |-> IF i = j THEN R(1) ELSE R(0)]]

translation(x, y, z) ==
    [i \in 1..4 |-> [j \in 1..4 |->
        IF j = 4 /\ i <= 3 THEN <<x, y, z>>[i] ELSE Matrix_identity[i][j]]]

scale(x, y, z) ==
    [i \in 1..4 |-> [j \in 1..4 |->
        IF i = j /\ i <= 3 THEN <<x, y, z>>[i] ELSE Matrix_identity[i][j]]]

\* An angle is a whole number k of quarter turns (k * PI / 2 radians), the
\* angles whose sine and cosine are whole numbers.
Cos(k) == R(<<1, 0, -1, 0>>[(k % 4) + 1])
Sin(k) == R(<<0, 1, 0, -1>>[(k % 4) + 1])

rotation_x(k) ==
    << <<R(1), R(0), R(0), R(0)>>,
       <<R(0), Cos(k), RNeg(Sin(k)), R(0)>>,
       <<R(0), Sin(k), Cos(k), R(0)>>,
       <<R(0), R(0), R(0), R(1)>> >>

rotation_y(k) ==
    << <<Cos(k), R(0), Sin(k), R(0)>>,
       <<R(0), R(1), R(0), R(0)>>,
       <<RNeg(Sin(k)), R(0), Cos(k), R(0)>>,
       <<R(0), R(0), R(0), R(1)>> >>

rotation_z(k) ==
    << <<Cos(k), RNeg(Sin(k)), R(0), R(0)>>,
       <<Sin(k), Cos(k), R(0), R(0)>>,
       <<R(0), R(0), R(1), R(0)>>,
       <<R(0), R(0), R(0), R(1)>> >>

shear(x_y, x_z, y_x, y_z, z_x, z_y) ==
    << <<R(1), x_y, x_z, R(0)>>,
       <<y_x, R(1), y_z, R(0)>>,
       <<z_x, z_y, R(1), R(0)>>,
       <<R(0), R(0), R(0), R(1)>> >>

\* impl Mul for Matrix: out[i][j] = sum of row i of self times column j of rhs
MatMul(self, rhs) ==
    [i \in 1..4 |-> [j \in 1..4 |->
        RSum4([k \in 1..4 |-> RMul(self[i][k], rhs[k][j])])]]

\* impl Mul<&Tuple> for Matrix
MulTuple(self, rhs) ==
    LET v == vector_copy(rhs)
        out == [i \in 1..4 |-> RSum4([k \in 1..4 |-> RMul(self[i][k], v[k])])]
    IN  Tuple_new(out[1], out[2], out[3], out[4])

Matrix_transpose(self) == [i \in 1..4 |-> [j \in 1..4 |-> self[j][i]]]

\* submatrix of an n x n matrix: row and column dropped (1-based)
Matrix_submatrix(self, n, row, column) ==
    [i \in 1..(n - 1) |-> [j \in 1..(n - 1) |->
        self[IF i < row THEN i ELSE i + 1][IF j < column THEN j ELSE j + 1]]]

Det2(self) == RSub(RMul(self[1][1], self[2][2]), RMul(self[1][2], self[2][1]))
Minor3(self, row, column) == Det2(Matrix_submatrix(self, 3, row, column))
Cofactor3(self, row, column) ==
    IF (row + column) % 2 = 0 THEN Minor3(self, row, column)
    ELSE RNeg(Minor3(self, row, column))
Det3(self) ==
    RAdd(RAdd(RMul(self[1][1], Cofactor3(self, 1, 1)),
              RMul(self[1][2], Cofactor3(self, 1, 2))),
         RMul(self[1][3], Cofactor3(self, 1, 3)))
Minor4(self, row, column) == Det3(Matrix_submatrix(self, 4, row, column))
Cofactor4(self, row, column) ==
    IF (row + column) % 2 = 0 THEN Minor4(self, row, column)
    ELSE RNeg(Minor4(self, row, column))
Matrix_determinant(self) ==
    RSum4([i \in 1..4 |-> RMul(self[1][i], Cofactor4(self, 1, i))])
\* is_invertible with > in the place of !=.
determinant_is_positive(self) == RGt(Matrix_determinant(self), R(0))
is_invertible(self) == Matrix_determinant(self) # R(0)
\* inverse without the transposition: out[i][j] = cofactor(i, j) / det.
inverse_untransposed(self) ==
    IF ~is_invertible(self) THEN Panic
    ELSE LET det == Matrix_determinant(self)
         IN  [i \in 1..4 |-> [j \in 1..4 |-> RDiv(Cofactor4(self, i, j), det)]]
\* out[j][i] = cofactor(i, j) / det; the assert! aborts on a singular matrix
Matrix_inverse(self) ==
    IF ~is_invertible(self) THEN Panic
    ELSE LET det == Matrix_determinant(self)
         IN  [j \in 1..4 |-> [i \in 1..4 |-> RDiv(Cofactor4(self, i, j), det)]]

\* The chained builders: each left-multiplies the matrix it is called on.
TranslateRight(self, x, y, z) == MatMul(self, translation(x, y, z))
Matrix_translate(self, x, y, z) == MatMul(translation(x, y, z), self)
Matrix_scale(self, x, y, z) == MatMul(scale(x, y, z), self)
Matrix_rotate_x(self, k) == MatMul(rotation_x(k), self)
Matrix_rotate_y(self, k) == MatMul(rotation_y(k), self)
Matrix_rotate_z(self, k) == MatMul(rotation_z(k), self)
Matrix_shear(self, x_y, x_z, y_x, y_z, z_x, z_y) ==
    MatMul(shear(x_y, x_z, y_x, y_z, z_x, z_y), self)

(***************************************************************************)
(* canvas.rs: Colour                                                       *)
(***************************************************************************)
Colour_new(r, g, b) == [red |-> r, green |-> g, blue |-> b]
Colour_black == Colour_new(R(0), R(0), R(0))
Colour_white == Colour_new(R(1), R(1), R(1))
Colour_add(a, b) ==
    Colour_new(RAdd(b.red, a.red), RAdd(b.green, a.green), RAdd(b.blue, a.blue))
Colour_scale(c, f) == Colour_new(RMul(f, c.red), RMul(f, c.green), RMul(f, c.blue))
Colour_mul(a, b) ==
    Colour_new(RMul(a.red, b.red), RMul(a.green, b.green), RMul(a.blue, b.blue))

(***************************************************************************)
(* shapes.rs.  A shape is referred to by its position in world.objects:    *)
(* Material's PartialEq compares addresses, so two shapes are equal        *)
(* exactly when they are the same element of the list.                     *)
(***************************************************************************)
Material_default ==
    [colour |-> Colour_new(R(1), R(1), R(1)),
     ambient |-> Q(1, 10), diffuse |-> Q(9, 10), specular |-> Q(9, 10),
     shininess |-> 200, reflectivity |-> R(0), refractive_index |-> R(1),
     transparency |-> R(0), pattern |-> "None"]

Shape_default ==
    [material |-> Material_default, transform |-> Matrix_identity, shape |-> "Sphere"]
sphere_default == [Shape_default EXCEPT !.shape = "Sphere"]
plane_default == [Shape_default EXCEPT !.shape = "Plane"]
glass_sphere ==
    [Shape_default EXCEPT !.material.transparency = R(1),
                          !.material.refractive_index = Q(3, 2)]

(***************************************************************************)
(* rays.rs                                                                 *)
(***************************************************************************)
Ray_new(point, vector) == [origin |-> point, direction |-> vector]
Ray_position(r, t) == Tuple_add(r.origin, Tuple_scale(t, r.direction))
Ray_transform(r, m) ==
    [origin |-> MulTuple(m, r.origin), direction |-> MulTuple(m, r.direction)]

\* An intersection: t and the index in world.objects of the shape it is on.
Intersection_new(t, object) == [t |-> t, object |-> object]

\* std::f64::EPSILON is 2^-52, finer than the model's numbers.  The model's
\* value is 2^-8 and the scenes that probe it place surfaces 2^-9 apart:
\* what the comparison does depends only on differences of t against it.
EPSILON_rays == Q(1, 256)

Intersection_partial_cmp(self, other) ==
    IF RLt(RAbs(RSub(self.t, other.t)), EPSILON_rays) THEN "Equal"
    ELSE IF RGt(self.t, other.t) THEN "Greater"
    ELSE "Less"

\* The places of the intersections of v that are not behind the origin.
NonNegative(v) == {i \in DOMAIN v : RGe(v[i].t, R(0))}

\* hit with the filter left out: every intersection is kept.
KeepAll(xs) == xs

\* Iterator::filter(|x| x.t >= 0.0)
RECURSIVE FilterNonNegative(_)
FilterNonNegative(xs) ==
    IF xs = <<>> THEN <<>>
    ELSE IF RGe(Head(xs).t, R(0)) THEN <<Head(xs)>> \o FilterNonNegative(Tail(xs))
    ELSE FilterNonNegative(Tail(xs))

\* Iterator::min_by: a fold that replaces the element it holds only by one
\* that compares strictly less; None for an empty iterator.
RECURSIVE MinByFold(_, _)
MinByFold(acc, xs) ==
    IF xs = <<>> THEN acc
    ELSE MinByFold(IF Intersection_partial_cmp(acc, Head(xs)) = "Greater"
                   THEN Head(xs) ELSE acc, Tail(xs))
MinBy(xs) == IF xs = <<>> THEN None ELSE Some(MinByFold(Head(xs), Tail(xs)))

\* The hit with its filter left out: the lowest of all the intersections.
hit_unfiltered(intersections) == MinBy(intersections)

Intersection_hit(intersections) == MinBy(FilterNonNegative(intersections))

\* plane::intersects, on the ray in object space.  EPSILON = 0.00001 is
\* scaled as the other epsilons are, to 2^-6: as in the source it is well
\* above the rounding of the numbers and well below the size of a scene.
plane_intersects(plane, r) ==
    IF RLt(RAbs(r.direction.y), Q(1, 64)) THEN <<>>
    ELSE <<Intersection_new(
             RDiv(RNeg(r.origin.y), Tuple_normalise(r.direction).y), plane)>>

\* sphere::intersects with its two roots in the other order.
sphere_intersects_swapped(sphere, r) ==
    LET sphere_to_ray == Tuple_sub(r.origin, point_new(R(0), R(0), R(0)))
        a == Tuple_dot(r.direction, r.direction)
        b == RMul(R(2), Tuple_dot(r.direction, sphere_to_ray))
        c == RSub(Tuple_dot(sphere_to_ray, sphere_to_ray), R(1))
        discriminant == RSub(RSquare(b), RMul(RMul(R(4), a), c))
    IN  IF RLt(discriminant, R(0)) THEN <<>>
        ELSE LET t1 == RDiv(RAdd(RNeg(b), RSqrt(discriminant)), RMul(R(2), a))
                 t2 == RDiv(RSub(RNeg(b), RSqrt(discriminant)), RMul(R(2), a))
             IN  <<Intersection_new(t1, sphere), Intersection_new(t2, sphere)>>

\* sphere::intersects, on the ray in object space
sphere_intersects(sphere, r) ==
    LET sphere_to_ray == Tuple_sub(r.origin, point_new(R(0), R(0), R(0)))
        a == Tuple_dot(r.direction, r.direction)
        b == RMul(R(2), Tuple_dot(r.direction, sphere_to_ray))
        c == RSub(Tuple_dot(sphere_to_ray, sphere_to_ray), R(1))
        discriminant == RSub(RSquare(b), RMul(RMul(R(4), a), c))
    IN  IF RLt(discriminant, R(0)) THEN <<>>
        ELSE LET t1 == RDiv(RSub(RNeg(b), RSqrt(discriminant)), RMul(R(2), a))
                 t2 == RDiv(RAdd(RNeg(b), RSqrt(discriminant)), RMul(R(2), a))
             IN  <<Intersection_new(t1, sphere), Intersection_new(t2, sphere)>>

\* Shape::intersects: the shape is objects[id]
Shape_intersects(objects, id, r) ==
    LET transform_inverse == Matrix_inverse(objects[id].transform)
        object_space_ray == Ray_transform(r, transform_inverse)
    IN  IF objects[id].shape = "Sphere" THEN sphere_intersects(id, object_space_ray)
        ELSE plane_intersects(id, object_space_ray)

\* slice::sort_by on a short vector is a stable insertion sort: each element,
\* from the last but one down to the first, moves right past the elements
\* that compare strictly less than it.
RECURSIVE InsertHead(_, _)
InsertHead(x, sorted) ==
    IF sorted = <<>> THEN <<x>>
    ELSE IF Intersection_partial_cmp(Head(sorted), x) = "Less"
         THEN <<Head(sorted)>> \o InsertHead(x, Tail(sorted))
         ELSE <<x>> \o sorted
RECURSIVE SortBy(_)
SortBy(v) == IF v = <<>> THEN <<>> ELSE InsertHead(Head(v), SortBy(Tail(v)))

\* The loop of intersects_world: every shape's intersections, appended in
\* the order of world.objects.
RECURSIVE AppendAll(_, _, _)
AppendAll(objects, id, r) ==
    IF id > Len(objects) THEN <<>>
    ELSE Shape_intersects(objects, id, r) \o AppendAll(objects, id + 1, r)

Ray_intersects_world(r, w) == SortBy(AppendAll(w.objects, 1, r))

(***************************************************************************)
(* shapes.rs: Shape::normal_at.                                            *)
(***************************************************************************)
plane_normal_at == point_new(R(0), R(1), R(0))
sphere_normal_at(point) == Tuple_sub(point, point_new(R(0), R(0), R(0)))

Shape_normal_at(self, point) ==
    LET transform_inverse == Matrix_inverse(self.transform)
        object_space_point == MulTuple(transform_inverse, point)
        object_space_normal ==
            IF self.shape = "Sphere" THEN sphere_normal_at(object_space_point)
            ELSE plane_normal_at
        world_space_normal == MulTuple(Matrix_transpose(transform_inverse), object_space_normal)
    IN  Tuple_normalise(world_space_normal)

(***************************************************************************)
(* lighting.rs.  A PreComputation holds its shape as an index in           *)
(* world.objects, as an Intersection does; the functions that follow the   *)
(* reference take the objects as their first argument.                     *)
(***************************************************************************)
PointLight_new(intensity, position) == [intensity |-> intensity, position |-> position]

\* const EPSILON = 0.0000001 of prepare_computations, scaled like the
\* EPSILON of rays.rs: 2^-5.
EPSILON_lighting == Q(1, 32)

\* x.powi(n), and x.powf(n) for the whole numbers the materials use
RECURSIVE RPowi(_, _)
RPowi(x, n) ==
    IF n = 0 THEN R(1)
    ELSE IF n % 2 = 0 THEN RSquare(RPowi(x, n \div 2))
    ELSE RMul(x, RPowi(x, n - 1))

\* The index read from the list with the placeholder 0.0 left where the
\* list is empty.
last_index_or_placeholder(objects, inside_of) ==
    IF inside_of = <<>> THEN R(0)
    ELSE objects[inside_of[Len(inside_of)]].material.refractive_index
\* objects_ray_is_inside_of.last().material.refractive_index, or 1.0
LastIndex(objects, inside_of) ==
    IF inside_of = <<>> THEN R(1)
    ELSE objects[inside_of[Len(inside_of)]].material.refractive_index

\* .iter().position(|obj| intersect.object == obj)
RECURSIVE Position(_, _, _)
Position(inside_of, object, k) ==
    IF k > Len(inside_of) THEN None
    ELSE IF inside_of[k] = object THEN Some(k)
    ELSE Position(inside_of, object, k + 1)

\* Vec::swap_remove(x) in the place of Vec::remove(x): the last element is
\* moved into the gap.
swap_remove(v, x) == [k \in 1..(Len(v) - 1) |-> IF k = x THEN v[Len(v)] ELSE v[k]]

\* Vec::remove(x)
Remove(v, x) == [k \in 1..(Len(v) - 1) |-> IF k < x THEN v[k] ELSE v[k + 1]]

\* The toggle with its removal left out: the shape is always pushed.
PushAlways(inside_of, object) == Append(inside_of, object)
\* match position { Some(x) => remove(x), None => push(object) }
Toggle(inside_of, object) ==
    LET pos == Position(inside_of, object, 1)
    IN  IF pos # None THEN Remove(inside_of, pos[1]) ELSE Append(inside_of, object)

\* The loop of prepare_computations over intersections[k..], from the list
\* inside_of of shapes entered and not yet left; n1 and n2 start at 0.0.
RECURSIVE ContainmentWalk(_, _, _, _, _)
ContainmentWalk(objects, i, intersections, k, inside_of) ==
    IF k > Len(intersections) THEN [n1 |-> R(0), n2 |-> R(0)]
    ELSE LET intersect == intersections[k]
             toggled == Toggle(inside_of, intersect.object)
         IN  IF i = intersect
             THEN [n1 |-> LastIndex(objects, inside_of), n2 |-> LastIndex(objects, toggled)]
             ELSE ContainmentWalk(objects, i, intersections, k + 1, toggled)

\* objects_ray_is_inside_of after the first n passes of the loop of
\* prepare_computations over intersections
RECURSIVE EnteredAfter(_, _)
EnteredAfter(intersections, n) ==
    IF n = 0 THEN <<>>
    ELSE Toggle(EnteredAfter(intersections, n - 1), intersections[n].object)
\* prepare_computations with over_point and under_point taken from the
\* normal as normal_at returned it, before the flip.
prepare_computations_offsets_unflipped(objects, i, r, intersections) ==
    LET p == Ray_position(r, i.t)
        normal_at == Shape_normal_at(objects[i.object], p)
        eye_vec == Tuple_negate(r.direction)
        inside == RLt(Tuple_dot(normal_at, eye_vec), R(0))
        normal == IF inside THEN Tuple_negate(normal_at) ELSE normal_at
        n == ContainmentWalk(objects, i, intersections, 1, <<>>)
    IN  [object |-> i.object,
         t |-> i.t,
         normal |-> normal,
         point |-> p,
         eye_vec |-> eye_vec,
         reflect_vec |-> Tuple_reflect(normal, r.direction),
         inside |-> inside,
         over_point |-> Tuple_add(p, Tuple_scale(EPSILON_lighting, normal_at)),
         under_point |-> Tuple_sub(p, Tuple_scale(EPSILON_lighting, normal_at)),
         n1 |-> n.n1,
         n2 |-> n.n2]
prepare_computations(objects, i, r, intersections) ==
    LET p == Ray_position(r, i.t)
        normal_at == Shape_normal_at(objects[i.object], p)
        eye_vec == Tuple_negate(r.direction)
        inside == RLt(Tuple_dot(normal_at, eye_vec), R(0))
        normal == IF inside THEN Tuple_negate(normal_at) ELSE normal_at
        n == ContainmentWalk(objects, i, intersections, 1, <<>>)
    IN  [object |-> i.object,
         t |-> i.t,
         normal |-> normal,
         point |-> p,
         eye_vec |-> eye_vec,
         reflect_vec |-> Tuple_reflect(normal, r.direction),
         inside |-> inside,
         over_point |-> Tuple_add(p, Tuple_scale(EPSILON_lighting, normal)),
         under_point |-> Tuple_sub(p, Tuple_scale(EPSILON_lighting, normal)),
         n1 |-> n.n1,
         n2 |-> n.n2]

\* calculate_lighting with nothing left of the light where in_shadow holds,
\* the ambient term included.
calculate_lighting_black_shadow(material, light, posn, eye_vec, normal, in_shadow) ==
    LET light_vec == Tuple_normalise(Tuple_sub(light.position, posn))
        effective_colour == Colour_mul(material.colour, light.intensity)
        ambient_term == Colour_scale(effective_colour, material.ambient)
        light_normal_dot == Tuple_dot(light_vec, normal)
        diffuse ==
            IF RLt(light_normal_dot, R(0)) THEN Colour_new(R(0), R(0), R(0))
            ELSE Colour_scale(Colour_scale(effective_colour, material.diffuse), light_normal_dot)
        reflect_vec == Tuple_reflect(normal, Tuple_negate(light_vec))
        reflect_eye_dot == Tuple_dot(reflect_vec, eye_vec)
        specular ==
            IF RLt(light_normal_dot, R(0)) THEN Colour_new(R(0), R(0), R(0))
            ELSE IF RLe(reflect_eye_dot, R(0)) THEN Colour_new(R(0), R(0), R(0))
            ELSE Colour_scale(Colour_scale(light.intensity, material.specular),
                              RPowi(reflect_eye_dot, material.shininess))
    IN  IF in_shadow THEN Colour_new(R(0), R(0), R(0))
        ELSE Colour_add(Colour_add(ambient_term, diffuse), specular)
\* calculate_lighting for a material without a pattern
calculate_lighting(material, light, posn, eye_vec, normal, in_shadow) ==
    LET light_vec == Tuple_normalise(Tuple_sub(light.position, posn))
        effective_colour == Colour_mul(material.colour, light.intensity)
        ambient_term == Colour_scale(effective_colour, material.ambient)
        light_normal_dot == Tuple_dot(light_vec, normal)
        diffuse ==
            IF RLt(light_normal_dot, R(0)) THEN Colour_new(R(0), R(0), R(0))
            ELSE Colour_scale(Colour_scale(effective_colour, material.diffuse), light_normal_dot)
        reflect_vec == Tuple_reflect(normal, Tuple_negate(light_vec))
        reflect_eye_dot == Tuple_dot(reflect_vec, eye_vec)
        specular ==
            IF RLt(light_normal_dot, R(0)) THEN Colour_new(R(0), R(0), R(0))
            ELSE IF RLe(reflect_eye_dot, R(0)) THEN Colour_new(R(0), R(0), R(0))
            ELSE Colour_scale(Colour_scale(light.intensity, material.specular),
                              RPowi(reflect_eye_dot, material.shininess))
    IN  IF in_shadow THEN ambient_term
        ELSE Colour_add(Colour_add(ambient_term, diffuse), specular)

is_shadowed(w, p) ==
    LET point_to_light == Tuple_sub(w.lights[1].position, p)
        distance_to_light == Tuple_magnitude(point_to_light)
        point_to_light_ray == Ray_new(p, Tuple_normalise(point_to_light))
        intersections == Ray_intersects_world(point_to_light_ray, w)
        h == Intersection_hit(intersections)
    IN  IF h = None THEN FALSE ELSE RLt(h[1].t, distance_to_light)

\* The loop of shade_hit: the lighting of the hit by lights[k..], added to out.
RECURSIVE LightsLoop(_, _, _, _)
LightsLoop(w, c, k, out) ==
    IF k > Len(w.lights) THEN out
    ELSE LightsLoop(w, c, k + 1,
            Colour_add(out, calculate_lighting(w.objects[c.object].material, w.lights[k],
                                               c.over_point, c.eye_vec, c.normal,
                                               is_shadowed(w, c.over_point))))

\* schlick: the sin2_t it computes for itself, and the condition under which
\* it leaves by its return 1.0
schlick_sin2_t(c) ==
    LET cosine == Tuple_dot(c.eye_vec, c.normal)
        n == RDiv(c.n1, c.n2)
    IN  RMul(RPowi(n, 2), RSub(R(1), RPowi(cosine, 2)))
schlick_returns_early(c) == RGt(c.n1, c.n2) /\ RGt(schlick_sin2_t(c), R(1))
schlick(c) ==
    LET cosine == Tuple_dot(c.eye_vec, c.normal)
        n == RDiv(c.n1, c.n2)
        sin2_t == RMul(RPowi(n, 2), RSub(R(1), RPowi(cosine, 2)))
        cos_t == RSqrt(RSub(R(1), sin2_t))
        r0 == RPowi(RDiv(RSub(c.n1, c.n2), RAdd(c.n1, c.n2)), 2)
        mix(cs) == RAdd(r0, RMul(RSub(R(1), r0), RPowi(RSub(R(1), cs), 5)))
    IN  IF RGt(c.n1, c.n2)
        THEN (IF RGt(sin2_t, R(1)) THEN R(1) ELSE mix(cos_t))
        ELSE mix(cosine)

\* The end of shade_hit without its blend: the three terms added up.
shade_sum_unblended(w, c, out, reflected, refracted) ==
    Colour_add(Colour_add(out, reflected), refracted)
\* The end of shade_hit: the surface colour with the two recursive terms.
ShadeSum(w, c, out, reflected, refracted) ==
    LET material == w.objects[c.object].material
    IN  IF RGt(material.reflectivity, R(0)) /\ RGt(material.transparency, R(0))
        THEN LET reflectance == schlick(c)
             IN  Colour_add(Colour_add(out, Colour_scale(reflected, reflectance)),
                            Colour_scale(refracted, RSub(R(1), reflectance)))
        ELSE Colour_add(Colour_add(out, reflected), refracted)

\* reflected_colour: its guard and the ray it casts
ReflectedIsBlack(w, c, remaining_recursions) ==
    remaining_recursions <= 0 \/ w.objects[c.object].material.reflectivity = R(0)
\* The reflected ray leaving from the hit itself, not from just above it.
reflected_ray_from_point(c) == Ray_new(c.point, c.reflect_vec)
reflected_ray(c) == Ray_new(c.over_point, c.reflect_vec)

\* refracted_colour: its guard and the ray it casts
n_ratio(c) == RDiv(c.n1, c.n2)
cos_i(c) == Tuple_dot(c.eye_vec, c.normal)
\* The sin2_t of refracted_colour with the cosine squared in the place of
\* the sine squared.
sin2_t_from_cosine(c) == RMul(RPowi(n_ratio(c), 2), RPowi(cos_i(c), 2))
sin2_t(c) == RMul(RPowi(n_ratio(c), 2), RSub(R(1), RPowi(cos_i(c), 2)))
\* The guard of refracted_colour without its test of the budget.
refracted_ignoring_budget(w, c, remaining_recursions) ==
    \/ w.objects[c.object].material.transparency = R(0)
    \/ RGt(sin2_t(c), R(1))
RefractedIsBlack(w, c, remaining_recursions) ==
    \/ w.objects[c.object].material.transparency = R(0)
    \/ remaining_recursions = 0
    \/ RGt(sin2_t(c), R(1))
refracted_ray(c) ==
    LET cos_t == RSqrt(RSub(R(1), sin2_t(c)))
        dirn == Tuple_sub(Tuple_scale(RSub(RMul(n_ratio(c), cos_i(c)), cos_t), c.normal),
                          Tuple_scale(n_ratio(c), c.eye_vec))
    IN  Ray_new(c.under_point, dirn)

\* colour_at and the three functions it is mutually recursive with, as
\* functions of their arguments.
RECURSIVE colour_at(_, _, _)
RECURSIVE shade_hit(_, _, _)
RECURSIVE reflected_colour(_, _, _)
RECURSIVE refracted_colour(_, _, _)
colour_at(w, r, remaining_recursions) ==
    LET intersections == Ray_intersects_world(r, w)
        hit == Intersection_hit(intersections)
    IN  IF hit = None THEN Colour_new(R(0), R(0), R(0))
        ELSE shade_hit(w, prepare_computations(w.objects, hit[1], r, intersections),
                       remaining_recursions)
shade_hit(w, c, remaining_recursions) ==
    ShadeSum(w, c, LightsLoop(w, c, 1, Colour_new(R(0), R(0), R(0))),
             reflected_colour(w, c, remaining_recursions),
             refracted_colour(w, c, remaining_recursions))
reflected_colour(w, c, remaining_recursions) ==
    IF ReflectedIsBlack(w, c, remaining_recursions) THEN Colour_new(R(0), R(0), R(0))
    ELSE Colour_scale(colour_at(w, reflected_ray(c), remaining_recursions - 1),
                      w.objects[c.object].material.reflectivity)
refracted_colour(w, c, remaining_recursions) ==
    IF RefractedIsBlack(w, c, remaining_recursions) THEN Colour_black
    ELSE Colour_scale(colour_at(w, refracted_ray(c), remaining_recursions - 1),
                      w.objects[c.object].material.transparency)

(***************************************************************************)
(* canvas.rs: Canvas.  pixels[y][x] of the source is pixels[y + 1][x + 1]. *)
(***************************************************************************)
Canvas_new(width, height) ==
    [width |-> width, height |-> height,
     pixels |-> [y \in 1..height |-> [x \in 1..width |-> Colour_new(R(0), R(0), R(0))]]]
pixel_at(self, x, y) == self.pixels[y + 1][x + 1]
\* write_pixel with its two indices exchanged
write_pixel_transposed(self, x, y, colour) == [self EXCEPT !.pixels[x + 1][y + 1] = colour]
write_pixel(self, x, y, colour) == [self EXCEPT !.pixels[y + 1][x + 1] = colour]

(***************************************************************************)
(* world.rs: Camera and render.  field_of_view is in quarter turns, as the *)
(* angles of the rotations are.  A method that takes &mut self gives back  *)
(* its value as out and the camera it leaves as self.                      *)
(***************************************************************************)
REFLECTION_RECURSION_DEPTH == 7

\* (field_of_view / 2.0).tan()
TanHalf(field_of_view) == IF field_of_view = 0 THEN R(0) ELSE R(1)

Camera_new(hsize, vsize, fov, t) ==
    [hsize |-> hsize, vsize |-> vsize, field_of_view |-> fov, transform |-> t,
     pixel_size |-> None, half_width |-> None, half_height |-> None]

Camera_half_width(self) ==
    IF self.half_width # None THEN [out |-> self.half_width[1], self |-> self]
    ELSE LET half_view == TanHalf(self.field_of_view)
             aspect == RDiv(R(self.hsize), R(self.vsize))
             half_width == IF RGe(aspect, R(1)) THEN half_view ELSE RMul(half_view, aspect)
         IN  [out |-> half_width, self |-> [self EXCEPT !.half_width = Some(half_width)]]

\* half_height with the view not divided by the aspect where the image is
\* wider than high.
half_height_undivided(self) ==
    IF self.half_height # None THEN [out |-> self.half_height[1], self |-> self]
    ELSE LET half_view == TanHalf(self.field_of_view)
         IN  [out |-> half_view, self |-> [self EXCEPT !.half_height = Some(half_view)]]
Camera_half_height(self) ==
    IF self.half_height # None THEN [out |-> self.half_height[1], self |-> self]
    ELSE LET half_view == TanHalf(self.field_of_view)
             aspect == RDiv(R(self.hsize), R(self.vsize))
             half_height == IF RGe(aspect, R(1)) THEN RDiv(half_view, aspect) ELSE half_view
         IN  [out |-> half_height, self |-> [self EXCEPT !.half_height = Some(half_height)]]

\* pixel_size computed at every call and never stored.
pixel_size_uncached(self) ==
    LET hw == Camera_half_width(self)
    IN  [out |-> RDiv(RMul(hw.out, R(2)), R(self.hsize)), self |-> hw.self]
Camera_pixel_size(self) ==
    IF self.pixel_size # None THEN [out |-> self.pixel_size[1], self |-> self]
    ELSE LET hw == Camera_half_width(self)
             ps == RDiv(RMul(hw.out, R(2)), R(self.hsize))
         IN  [out |-> ps, self |-> [hw.self EXCEPT !.pixel_size = Some(ps)]]

ray_for_pixel(self, x, y) ==
    LET ps1 == Camera_pixel_size(self)
        x_offset == RMul(RAdd(R(x), Q(1, 2)), ps1.out)
        ps2 == Camera_pixel_size(ps1.self)
        y_offset == RMul(RAdd(R(y), Q(1, 2)), ps2.out)
        hw == Camera_half_width(ps2.self)
        world_x == RSub(hw.out, x_offset)
        hh == Camera_half_height(hw.self)
        world_y == RSub(hh.out, y_offset)
        inverse == Matrix_inverse(self.transform)
        px == MulTuple(inverse, point_new(world_x, world_y, R(-1)))
        origin == MulTuple(inverse, point_new(R(0), R(0), R(0)))
        direction == Tuple_normalise(Tuple_sub(px, origin))
    IN  [out |-> Ray_new(origin, direction), self |-> hh.self]

view_transform(from, to, up) ==
    LET forward == Tuple_normalise(Tuple_sub(to, from))
        left == Tuple_cross(forward, Tuple_normalise(up))
        true_up == Tuple_cross(left, forward)
        orientation ==
            << <<left.x, left.y, left.z, R(0)>>,
               <<true_up.x, true_up.y, true_up.z, R(0)>>,
               <<RNeg(forward.x), RNeg(forward.y), RNeg(forward.z), R(0)>>,
               <<R(0), R(0), R(0), R(1)>> >>
    IN  MatMul(orientation, translation(RNeg(from.x), RNeg(from.y), RNeg(from.z)))

\* iproduct!(0..a, 0..b): the pairs in the order the loop visits them
IProduct(a, b) == [k \in 1..(a * b) |-> <<(k - 1) \div b, (k - 1) % b>>]

(***************************************************************************)
(* SpecMatrix: a builder chain Matrix::identity().op1(..).op2(..)...       *)
(***************************************************************************)
\* The arguments the builders are called with (matrices.rs tests, 479-587).
TranslateArgs == {<<10, 5, 7>>, <<5, -3, 2>>}
ScaleArgs == {<<5, 5, 5>>, <<2, 3, 4>>}
QuarterTurns == {1}
ShearArgs == {<<0, 1, 0, 0, 0, 0>>}

\* The variables of a machine that is not running.
IdleMatrix == transform = Matrix_identity /\ chain = <<>>
IdleRays ==
    /\ world = [objects |-> <<>>, lights |-> <<>>]
    /\ ray = [origin |-> point_new(R(0), R(0), R(0)), direction |-> vector_new(R(0), R(0), R(1))]
    /\ inters = <<>>
    /\ hitres = None
    /\ comps = None
    /\ rpc = "vec"

IdleRender ==
    /\ cam = Camera_new(1, 1, 0, Matrix_identity)
    /\ image = Canvas_new(0, 0)
    /\ todo = <<>>
    /\ written = {}
    /\ start = None
    /\ expected = <<>>
    /\ rdpc = "new"

IdleShade ==
    /\ stack = <<>>
    /\ ret = None
    /\ budget = 0
    /\ steps = 0
    /\ last = None

IdleCalls == call = None /\ returned = None

InitMatrix ==
    /\ IdleCalls
    /\ transform = Matrix_identity
    /\ chain = <<>>
    /\ IdleRays
    /\ IdleRender
    /\ IdleShade

BuildTranslate ==
    /\ Len(chain) < MaxChain
    /\ \E a \in TranslateArgs :
        /\ transform' = Matrix_translate(transform, R(a[1]), R(a[2]), R(a[3]))
        /\ chain' = Append(chain, [op |-> "translate", args |-> a])

BuildScale ==
    /\ Len(chain) < MaxChain
    /\ \E a \in ScaleArgs :
        /\ transform' = Matrix_scale(transform, R(a[1]), R(a[2]), R(a[3]))
        /\ chain' = Append(chain, [op |-> "scale", args |-> a])

BuildRotateX ==
    /\ Len(chain) < MaxChain
    /\ \E k \in QuarterTurns :
        /\ transform' = Matrix_rotate_x(transform, k)
        /\ chain' = Append(chain, [op |-> "rotate_x", args |-> <<k>>])

BuildRotateY ==
    /\ Len(chain) < MaxChain
    /\ \E k \in QuarterTurns :
        /\ transform' = Matrix_rotate_y(transform, k)
        /\ chain' = Append(chain, [op |-> "rotate_y", args |-> <<k>>])

BuildRotateZ ==
    /\ Len(chain) < MaxChain
    /\ \E k \in QuarterTurns :
        /\ transform' = Matrix_rotate_z(transform, k)
        /\ chain' = Append(chain, [op |-> "rotate_z", args |-> <<k>>])

BuildShear ==
    /\ Len(chain) < MaxChain
    /\ \E a \in ShearArgs :
        /\ transform' = Matrix_shear(transform, R(a[1]), R(a[2]), R(a[3]),
                                     R(a[4]), R(a[5]), R(a[6]))
        /\ chain' = Append(chain, [op |-> "shear", args |-> a])

NextMatrix ==
    \/ BuildTranslate /\ UNCHANGED <<rayVars, renderVars, shadeVars, callVars>>
    \/ BuildScale /\ UNCHANGED <<rayVars, renderVars, shadeVars, callVars>>
    \/ BuildRotateX /\ UNCHANGED <<rayVars, renderVars, shadeVars, callVars>>
    \/ BuildRotateY /\ UNCHANGED <<rayVars, renderVars, shadeVars, callVars>>
    \/ BuildRotateZ /\ UNCHANGED <<rayVars, renderVars, shadeVars, callVars>>
    \/ BuildShear /\ UNCHANGED <<rayVars, renderVars, shadeVars, callVars>>

SpecMatrix == InitMatrix /\ [][NextMatrix]_vars

(***************************************************************************)
(* SpecRays: Intersection::hit on a vector built by hand (rays.rs tests)   *)
(* and on what Ray::intersects_world returns.                              *)
(***************************************************************************)
PlaneAt(y) == [plane_default EXCEPT !.transform = translation(R(0), y, R(0))]
SphereScaled(f) == [sphere_default EXCEPT !.transform = scale(f, f, f)]
AxisLight == [intensity |-> Colour_white, position |-> point_new(R(0), R(0), R(-10))]

\* World::default with its light moved onto the z axis: two concentric
\* spheres, the first with its own colour, the second half the size.
DefaultWorld ==
    [objects |-> << [sphere_default EXCEPT
                        !.material.colour = Colour_new(Q(4, 5), R(1), Q(3, 5)),
                        !.material.diffuse = Q(7, 10),
                        !.material.specular = Q(1, 5)],
                    SphereScaled(Q(1, 2)) >>,
     lights |-> <<AxisLight>>]
\* Three planes half an EPSILON apart.
NearPlanesWorld ==
    [objects |-> <<PlaneAt(R(0)), PlaneAt(Q(1, 512)), PlaneAt(Q(1, 256))>>,
     lights |-> <<AxisLight>>]
\* Two planes in the same place, and a sphere touching them from above.
CoincidentWorld ==
    [objects |-> <<PlaneAt(R(-1)), sphere_default, PlaneAt(R(-1))>>,
     lights |-> <<AxisLight>>]
EmptyWorld == [objects |-> <<>>, lights |-> <<>>]
GlassSphere(t, refractive_index) ==
    [glass_sphere EXCEPT !.transform = t, !.material.refractive_index = refractive_index]
\* The spheres A, B and C of tests::finding_n1_and_n2_at_various_intersections.
GlassWorld ==
    [objects |-> << GlassSphere(scale(R(2), R(2), R(2)), Q(3, 2)),
                    GlassSphere(translation(R(0), R(0), Q(-1, 4)), R(2)),
                    GlassSphere(translation(R(0), R(0), Q(1, 4)), Q(5, 2)) >>,
     lights |-> <<AxisLight>>]
\* Two glass spheres that overlap without either holding the other.
OverlapWorld ==
    [objects |-> << GlassSphere(Matrix_identity, Q(3, 2)),
                    GlassSphere(translation(R(0), R(0), R(1)), R(2)) >>,
     lights |-> <<AxisLight>>]

\* Three glass spheres in a row, each overlapping the next two: a ray along
\* z enters all three before it leaves the first.
ChainWorld ==
    [objects |-> << GlassSphere(Matrix_identity, Q(3, 2)),
                    GlassSphere(translation(R(0), R(0), R(1)), R(2)),
                    GlassSphere(translation(R(0), R(0), Q(3, 2)), Q(5, 2)) >>,
     lights |-> <<AxisLight>>]
AlongZ(z) == Ray_new(point_new(R(0), R(0), R(z)), vector_new(R(0), R(0), R(1)))
AlongY(y, dy) == Ray_new(point_new(R(0), R(y), R(0)), vector_new(R(0), R(dy), R(0)))

RayCases ==
    {     [world |-> DefaultWorld, ray |-> AlongZ(-5)],
     [world |-> DefaultWorld, ray |-> AlongZ(0)],
     [world |-> DefaultWorld, ray |-> AlongZ(5)],
     [world |-> DefaultWorld, ray |-> AlongY(-5, 1)],
     [world |-> NearPlanesWorld, ray |-> AlongY(1, -1)],
     [world |-> NearPlanesWorld, ray |-> AlongY(-1, 1)],
     [world |-> NearPlanesWorld, ray |-> AlongZ(-5)],
     [world |-> CoincidentWorld, ray |-> AlongY(3, -1)],
     [world |-> CoincidentWorld, ray |-> AlongY(-3, 1)],
     [world |-> CoincidentWorld, ray |-> AlongY(0, 1)],
     [world |-> EmptyWorld, ray |-> AlongZ(-5)],
     [world |-> GlassWorld, ray |-> AlongZ(-4)],
     [world |-> GlassWorld, ray |-> AlongZ(0)],
     [world |-> OverlapWorld, ray |-> AlongZ(-4)],
     [world |-> OverlapWorld, ray |-> AlongZ(4)],
     [world |-> ChainWorld, ray |-> AlongZ(-4)],
     [world |-> ChainWorld, ray |-> AlongZ(1)]}

\* The t of a hand-built intersection: behind the origin, at it, and ahead,
\* with values closer together than EPSILON.
HandT == {R(-1), Q(-1, 512), R(0), Q(1, 512), Q(1, 256), R(1)}

InitRays ==
    /\ IdleCalls
    /\ IdleMatrix
    /\ IdleRender
    /\ IdleShade
    /\ \/ world = DefaultWorld /\ ray = AlongZ(-5) /\ rpc = "vec"
       \/ \E c \in RayCases : world = c.world /\ ray = c.ray /\ rpc = "cast"
    /\ inters = <<>>
    /\ hitres = None
    /\ comps = None

\* vec![.., Intersection::new(t, &s)]
PushIntersection ==
    /\ rpc = "vec"
    /\ Len(inters) < MaxInters
    /\ \E t \in HandT, s \in 1..Len(world.objects) :
            inters' = Append(inters, Intersection_new(t, s))
    /\ UNCHANGED <<world, ray, hitres, comps, rpc>>

\* let inters = r.intersects_world(&w)
IntersectsWorld ==
    /\ rpc = "cast"
    /\ inters' = Ray_intersects_world(ray, world)
    /\ rpc' = "intersected"
    /\ UNCHANGED <<world, ray, hitres, comps>>

\* Intersection::hit(inters)
Hit ==
    /\ rpc \in {"vec", "intersected"}
    /\ hitres' = Intersection_hit(inters)
    /\ rpc' = "hit"
    /\ UNCHANGED <<world, ray, inters, comps>>

\* prepare_computations(&xs[k], &r, &xs), as the tests of lighting.rs call it
\* on each intersection of a ray in turn
PrepareComputations ==
    /\ rpc = "intersected"
    /\ \E k \in DOMAIN inters :
            comps' = Some(prepare_computations(world.objects, inters[k], ray, inters))
    /\ rpc' = "prepared"
    /\ UNCHANGED <<world, ray, inters, hitres>>

NextRays ==
    \/ PrepareComputations /\ UNCHANGED <<matVars, renderVars, shadeVars, callVars>>
    \/ PushIntersection /\ UNCHANGED <<matVars, renderVars, shadeVars, callVars>>
    \/ IntersectsWorld /\ UNCHANGED <<matVars, renderVars, shadeVars, callVars>>
    \/ Hit /\ UNCHANGED <<matVars, renderVars, shadeVars, callVars>>

SpecRays == InitRays /\ [][NextRays]_vars

(***************************************************************************)
(* SpecRender: a camera is built, its rays may be asked for, and render    *)
(* is called on it once.                                                   *)
(***************************************************************************)
FlatMaterial(colour) ==
    [Material_default EXCEPT !.colour = colour, !.ambient = R(1),
                             !.diffuse = R(0), !.specular = R(0)]
\* A sphere between a floor and a ceiling, each of one flat colour.
RoomWorld ==
    [objects |-> << [sphere_default EXCEPT !.material = FlatMaterial(Colour_new(R(1), R(0), R(0)))],
                    [PlaneAt(R(-2)) EXCEPT !.material = FlatMaterial(Colour_new(R(0), R(1), R(0)))],
                    [PlaneAt(R(2)) EXCEPT !.material = FlatMaterial(Colour_new(R(0), R(0), R(1)))] >>,
     lights |-> <<AxisLight>>]

\* The view of tests::rendering_world_with_camera: from in front of the
\* spheres, on the side of the light.
FrontView ==
    view_transform(point_new(R(0), R(0), R(-5)), point_new(R(0), R(0), R(0)),
                   vector_new(R(0), R(1), R(0)))
\* The worlds rendered, each with the transform and the field of view (in
\* quarter turns) of its camera.
RenderCases ==
    {[world |-> RoomWorld, transform |-> FrontView, fov |-> 1],
     [world |-> DefaultWorld, transform |-> FrontView, fov |-> 1],
     [world |-> EmptyWorld, transform |-> Matrix_identity, fov |-> 0]}

\* The colour of pixel (x, y) as the camera's parameters and the world give
\* it: the ray of a camera newly built from the parameters, traced.
PixelColour(c, w, x, y) ==
    colour_at(w, ray_for_pixel(Camera_new(c.hsize, c.vsize, c.field_of_view, c.transform),
                               x, y).out,
              REFLECTION_RECURSION_DEPTH)

InitRender ==
    /\ IdleCalls
    /\ IdleMatrix
    /\ IdleShade
    /\ ray = AlongZ(-5) /\ inters = <<>> /\ hitres = None /\ comps = None /\ rpc = "cast"
    /\ \E hsize, vsize \in 1..MaxSize, c \in RenderCases :
            /\ world = c.world
            /\ cam = Camera_new(hsize, vsize, c.fov, c.transform)
    /\ image = Canvas_new(0, 0)
    /\ todo = <<>>
    /\ written = {}
    /\ start = None
    /\ expected = <<>>
    /\ rdpc = "new"

\* c.ray_for_pixel(x, y), called on the camera before it is rendered
RayForPixel ==
    /\ rdpc = "new"
    /\ \E x \in 0..(cam.hsize - 1), y \in 0..(cam.vsize - 1) :
            cam' = ray_for_pixel(cam, x, y).self
    /\ UNCHANGED <<image, todo, written, start, expected, rdpc>>

\* render, up to its loop
RenderCall ==
    /\ rdpc = "new"
    /\ image' = Canvas_new(cam.hsize, cam.vsize)
    /\ todo' = IProduct(cam.hsize - 1, cam.vsize - 1)
    /\ written' = {}
    /\ start' = Some([cam |-> cam, world |-> world])
    /\ expected' = [p \in (0..(cam.hsize - 1)) \X (0..(cam.vsize - 1)) |->
                        PixelColour(cam, world, p[1], p[2])]
    /\ rdpc' = "loop"
    /\ UNCHANGED cam

\* The body of the loop for the pixel at place k of those left.
LoopBody(k) ==
    LET x == todo[k][1]
        y == todo[k][2]
        rp == ray_for_pixel(cam, x, y)
        colour == colour_at(world, rp.out, REFLECTION_RECURSION_DEPTH)
    IN  /\ cam' = rp.self
        /\ image' = write_pixel(image, x, y, colour)
        /\ written' = written \cup {<<x, y>>}
        /\ todo' = Remove(todo, k)
        /\ UNCHANGED <<start, expected, rdpc>>

\* One turn of the loop of render: the next pixel of the iterator.
RenderPixel ==
    /\ rdpc = "loop"
    /\ todo # <<>>
    /\ LoopBody(1)

\* render returns the image
RenderReturn ==
    /\ rdpc = "loop"
    /\ todo = <<>>
    /\ rdpc' = "done"
    /\ UNCHANGED <<cam, image, todo, written, start, expected>>

NextRender ==
    \/ RayForPixel /\ UNCHANGED <<matVars, rayVars, shadeVars, callVars>>
    \/ RenderCall /\ UNCHANGED <<matVars, rayVars, shadeVars, callVars>>
    \/ RenderPixel /\ UNCHANGED <<matVars, rayVars, shadeVars, callVars>>
    \/ RenderReturn /\ UNCHANGED <<matVars, rayVars, shadeVars, callVars>>

SpecRender == InitRender /\ [][NextRender]_vars

(***************************************************************************)
(* SpecRenderTasks: render with the turns of its loop taken in any order,  *)
(* the order of the iterator among them.                                   *)
(***************************************************************************)
RenderAnyPixel ==
    /\ rdpc = "loop"
    /\ \E k \in DOMAIN todo : LoopBody(k)

NextRenderTasks ==
    \/ RayForPixel /\ UNCHANGED <<matVars, rayVars, shadeVars, callVars>>
    \/ RenderCall /\ UNCHANGED <<matVars, rayVars, shadeVars, callVars>>
    \/ RenderAnyPixel /\ UNCHANGED <<matVars, rayVars, shadeVars, callVars>>
    \/ RenderReturn /\ UNCHANGED <<matVars, rayVars, shadeVars, callVars>>

SpecRenderTasks == InitRender /\ [][NextRenderTasks]_vars

(***************************************************************************)
(* C3, C7, C8, C9: the camera and render.                                  *)
(***************************************************************************)
\* C3: the image render returns has the camera's dimensions and every pixel
\* (x, y) with 0 <= x < hsize and 0 <= y < vsize has been written with the
\* colour of its ray, the last column and the last row included.
C3_EveryPixelWritten ==
    rdpc = "done" =>
        /\ image.width = cam.hsize
        /\ image.height = cam.vsize
        /\ \A x \in 0..(cam.hsize - 1), y \in 0..(cam.vsize - 1) :
               /\ <<x, y>> \in written
               /\ pixel_at(image, x, y) = PixelColour(cam, world, x, y)

\* C7: whatever the order in which the pixels are processed, a slot (x, y)
\* that has been written holds the colour that (x, y), the camera's
\* parameters and the world give, and every other slot is as Canvas::new
\* left it: no turn of the loop has written a slot other than its own.
C7_SlotIsFunctionOfPixel ==
    rdpc \in {"loop", "done"} =>
        \A x \in 0..(cam.hsize - 1), y \in 0..(cam.vsize - 1) :
            pixel_at(image, x, y) =
                IF <<x, y>> \in written THEN expected[<<x, y>>]
                ELSE Colour_new(R(0), R(0), R(0))

\* Pixels (1, 1) and (1, 0) have been processed before (0, 0), which the
\* iterator visits first, and hold the colours of the sphere and the ceiling.
C7_Witness ==
    /\ rdpc = "loop"
    /\ world = RoomWorld
    /\ cam.hsize = 3 /\ cam.vsize = 3 /\ cam.field_of_view = 1
    /\ written = {<<1, 1>>, <<1, 0>>}
    /\ pixel_at(image, 1, 1) = Colour_new(R(1), R(0), R(0))
    /\ pixel_at(image, 1, 0) = Colour_new(R(0), R(0), R(1))
    /\ pixel_at(image, 0, 0) = Colour_new(R(0), R(0), R(0))

\* C8: from the call of render on, the World and the Camera are as they were
\* when render was called.
C8_ReadOnlyDuringRender ==
    start # None => (cam = start[1].cam /\ world = start[1].world)

\* C9: from Camera::new on, half_width, half_height and pixel_size hold the
\* values that hsize, vsize and field_of_view give.
C9_DerivedAtConstruction ==
    LET half_view == TanHalf(cam.field_of_view)
        wide == cam.hsize >= cam.vsize
        half_width == IF wide THEN half_view
                      ELSE RMul(half_view, RDiv(R(cam.hsize), R(cam.vsize)))
        half_height == IF wide THEN RDiv(half_view, RDiv(R(cam.hsize), R(cam.vsize)))
                       ELSE half_view
    IN  /\ cam.half_width = Some(half_width)
        /\ cam.half_height = Some(half_height)
        /\ cam.pixel_size = Some(RDiv(RMul(half_width, R(2)), R(cam.hsize)))

(***************************************************************************)
(* SpecShade: colour_at(&w, &r, budget) run call by call.  A frame of the  *)
(* stack is one call: its function, the place pc it has reached, its       *)
(* arguments (the ray r of colour_at, the PreComputation c of the others)  *)
(* and the locals out and reflected of shade_hit.                          *)
(***************************************************************************)
Frame(fn, r, c, remaining_recursions) ==
    [fn |-> fn, pc |-> "enter", r |-> r, c |-> c,
     remaining_recursions |-> remaining_recursions,
     out |-> Colour_new(R(0), R(0), R(0)), reflected |-> Colour_new(R(0), R(0), R(0))]

Top == stack[Len(stack)]
Popped == SubSeq(stack, 1, Len(stack) - 1)
\* The stack with its top frame at place pc and the call f on top of it.
Calling(pc, f) == Append([stack EXCEPT ![Len(stack)].pc = pc], f)
Running(fn, pc) == stack # <<>> /\ Top.fn = fn /\ Top.pc = pc

\* The nested colour_at of reflected_colour handed the budget it was given
\* itself.
reflected_call_same_budget(c, remaining_recursions) ==
    Frame("colour_at", Some(reflected_ray(c)), None, remaining_recursions)

\* colour_at(&w, &reflected_ray, remaining_recursions - 1)
reflected_call(c, remaining_recursions) ==
    Frame("colour_at", Some(reflected_ray(c)), None, remaining_recursions - 1)
\* The nested colour_at of refracted_colour handed the budget it was given
\* itself.
refracted_call_same_budget(c, remaining_recursions) ==
    Frame("colour_at", Some(refracted_ray(c)), None, remaining_recursions)
\* colour_at(&w, &refracted_ray, remaining_recursions - 1)
refracted_call(c, remaining_recursions) ==
    Frame("colour_at", Some(refracted_ray(c)), None, remaining_recursions - 1)

\* Two facing mirrors, the light between them.
MirrorWorld ==
    [objects |-> << [PlaneAt(R(-1)) EXCEPT !.material.reflectivity = R(1)],
                    [PlaneAt(R(1)) EXCEPT !.material.reflectivity = R(1)] >>,
     lights |-> <<PointLight_new(Colour_white, point_new(R(0), R(0), R(0)))>>]
\* The world of tests::colour_at_mutually_recursive_surfaces.
MirrorTestWorld ==
    [objects |-> DefaultWorld.objects \o MirrorWorld.objects,
     lights |-> DefaultWorld.lights]
\* A glass ball that also reflects, in front of a mirror.
GlassMirrorWorld ==
    [objects |-> << [GlassSphere(Matrix_identity, Q(3, 2)) EXCEPT
                         !.material.reflectivity = Q(1, 2)],
                    [plane_default EXCEPT
                         !.transform = MatMul(translation(R(0), R(0), R(3)), rotation_x(1)),
                         !.material.reflectivity = R(1)] >>,
     lights |-> <<AxisLight>>]

\* World::default with a second light, above it.
TwoLightsWorld ==
    [DefaultWorld EXCEPT
        !.lights = Append(@, PointLight_new(Colour_new(Q(1, 2), Q(1, 2), Q(1, 2)),
                                           point_new(R(0), R(10), R(0))))]

ShadeCases ==
    {[world |-> MirrorWorld, ray |-> AlongY(0, 1)],
     [world |-> MirrorTestWorld, ray |-> AlongY(0, 1)],
     [world |-> MirrorTestWorld, ray |-> AlongY(-3, 1)],
     [world |-> GlassMirrorWorld, ray |-> AlongZ(-4)],
     [world |-> GlassMirrorWorld, ray |-> Ray_new(point_new(R(0), R(0), Q(3, 4)),
                                                  vector_new(R(0), R(1), R(0)))],
     [world |-> GlassWorld, ray |-> AlongZ(-4)],
     [world |-> OverlapWorld, ray |-> AlongZ(0)],
     [world |-> DefaultWorld, ray |-> AlongZ(-5)],
     [world |-> DefaultWorld, ray |-> AlongZ(5)],
     [world |-> DefaultWorld, ray |-> AlongY(-5, 1)],
     [world |-> DefaultWorld, ray |-> Ray_new(point_new(R(0), R(0), R(-5)),
                                              vector_new(R(0), R(1), R(0)))],
     [world |-> TwoLightsWorld, ray |-> AlongZ(-5)],
     [world |-> TwoLightsWorld, ray |-> AlongY(5, -1)],
     [world |-> EmptyWorld, ray |-> AlongZ(-5)]}

InitShade ==
    /\ IdleCalls
    /\ IdleMatrix
    /\ IdleRender
    /\ \E c \in ShadeCases : world = c.world /\ ray = c.ray
    /\ inters = <<>> /\ hitres = None /\ comps = None /\ rpc = "cast"
    /\ budget \in 0..MaxRecursion
    /\ stack = <<Frame("colour_at", Some(ray), None, budget)>>
    /\ ret = None
    /\ steps = 0
    /\ last = None

\* colour_at: match hit { None => Colour::new(0.0, 0.0, 0.0) }
ColourAtMiss ==
    /\ Running("colour_at", "enter")
    /\ Intersection_hit(Ray_intersects_world(Top.r[1], world)) = None
    /\ stack' = Popped
    /\ ret' = Some(Colour_new(R(0), R(0), R(0)))
    /\ last' = Some([r |-> Top.r[1], remaining_recursions |-> Top.remaining_recursions,
                     result |-> Colour_new(R(0), R(0), R(0))])
    /\ UNCHANGED budget

\* colour_at: match hit { Some(h) => shade_hit(w, &prepare_computations(..), ..) }
ColourAtHit ==
    /\ Running("colour_at", "enter")
    /\ LET intersections == Ray_intersects_world(Top.r[1], world)
           hit == Intersection_hit(intersections)
       IN  /\ hit # None
           /\ stack' = Calling("shade_hit",
                   Frame("shade_hit", None,
                         Some(prepare_computations(world.objects, hit[1], Top.r[1], intersections)),
                         Top.remaining_recursions))
    /\ UNCHANGED <<ret, budget, last>>

\* colour_at returns what shade_hit returned
ColourAtReturn ==
    /\ Running("colour_at", "shade_hit")
    /\ ret # None
    /\ stack' = Popped
    /\ last' = Some([r |-> Top.r[1], remaining_recursions |-> Top.remaining_recursions,
                     result |-> ret[1]])
    /\ UNCHANGED <<ret, budget>>

\* shade_hit: the loop over the lights, then the call of reflected_colour
ShadeHitLights ==
    /\ Running("shade_hit", "enter")
    /\ stack' = Append([stack EXCEPT ![Len(stack)].pc = "reflected_colour",
                                     ![Len(stack)].out =
                                         LightsLoop(world, Top.c[1], 1, Colour_new(R(0), R(0), R(0)))],
                       Frame("reflected_colour", None, Top.c, Top.remaining_recursions))
    /\ UNCHANGED <<ret, budget, last>>

\* shade_hit: reflected_colour has returned; the call of refracted_colour
ShadeHitReflected ==
    /\ Running("shade_hit", "reflected_colour")
    /\ ret # None
    /\ stack' = Append([stack EXCEPT ![Len(stack)].pc = "refracted_colour",
                                     ![Len(stack)].reflected = ret[1]],
                       Frame("refracted_colour", None, Top.c, Top.remaining_recursions))
    /\ ret' = None
    /\ UNCHANGED <<budget, last>>

\* shade_hit: refracted_colour has returned; the sum is returned
ShadeHitReturn ==
    /\ Running("shade_hit", "refracted_colour")
    /\ ret # None
    /\ stack' = Popped
    /\ ret' = Some(ShadeSum(world, Top.c[1], Top.out, Top.reflected, ret[1]))
    /\ UNCHANGED <<budget, last>>

\* reflected_colour: no budget left, or a surface that does not reflect
ReflectedBlack ==
    /\ Running("reflected_colour", "enter")
    /\ ReflectedIsBlack(world, Top.c[1], Top.remaining_recursions)
    /\ stack' = Popped
    /\ ret' = Some(Colour_new(R(0), R(0), R(0)))
    /\ UNCHANGED <<budget, last>>

\* reflected_colour: the reflected ray is traced
ReflectedCall ==
    /\ Running("reflected_colour", "enter")
    /\ ~ReflectedIsBlack(world, Top.c[1], Top.remaining_recursions)
    /\ stack' = Calling("colour_at", reflected_call(Top.c[1], Top.remaining_recursions))
    /\ UNCHANGED <<ret, budget, last>>

\* reflected_colour: colour * reflectivity is returned
ReflectedReturn ==
    /\ Running("reflected_colour", "colour_at")
    /\ ret # None
    /\ stack' = Popped
    /\ ret' = Some(Colour_scale(ret[1], world.objects[Top.c[1].object].material.reflectivity))
    /\ UNCHANGED <<budget, last>>

\* refracted_colour: an opaque surface, no budget left, or total internal
\* reflection
RefractedBlack ==
    /\ Running("refracted_colour", "enter")
    /\ RefractedIsBlack(world, Top.c[1], Top.remaining_recursions)
    /\ stack' = Popped
    /\ ret' = Some(Colour_black)
    /\ UNCHANGED <<budget, last>>

\* refracted_colour: the refracted ray is traced
RefractedCall ==
    /\ Running("refracted_colour", "enter")
    /\ ~RefractedIsBlack(world, Top.c[1], Top.remaining_recursions)
    /\ stack' = Calling("colour_at", refracted_call(Top.c[1], Top.remaining_recursions))
    /\ UNCHANGED <<ret, budget, last>>

\* refracted_colour: colour * transparency is returned
RefractedReturn ==
    /\ Running("refracted_colour", "colour_at")
    /\ ret # None
    /\ stack' = Popped
    /\ ret' = Some(Colour_scale(ret[1], world.objects[Top.c[1].object].material.transparency))
    /\ UNCHANGED <<budget, last>>

\* Every step of a call is counted, and is no step of another machine.
Step == steps' = steps + 1 /\ UNCHANGED <<matVars, rayVars, renderVars, callVars>>

NextShade ==
    \/ ColourAtMiss /\ Step
    \/ ColourAtHit /\ Step
    \/ ColourAtReturn /\ Step
    \/ ShadeHitLights /\ Step
    \/ ShadeHitReflected /\ Step
    \/ ShadeHitReturn /\ Step
    \/ ReflectedBlack /\ Step
    \/ ReflectedCall /\ Step
    \/ ReflectedReturn /\ Step
    \/ RefractedBlack /\ Step
    \/ RefractedCall /\ Step
    \/ RefractedReturn /\ Step

SpecShade == InitShade /\ [][NextShade]_vars

(***************************************************************************)
(* C1, C6: colour_at.                                                      *)
(***************************************************************************)
\* The colour_at calls that have not returned: each but the outermost was
\* made by the reflected_colour or refracted_colour of the one before it.
NestedColourAt == Cardinality({k \in DOMAIN stack : stack[k].fn = "colour_at"})

\* The most steps a colour_at with budget d takes: its own and those of its
\* shade_hit, reflected_colour and refracted_colour, and twice those of a
\* colour_at with budget d - 1.
RECURSIVE StepBound(_)
StepBound(d) == IF d = 0 THEN 7 ELSE 9 + 2 * StepBound(d - 1)

\* The call on top of the stack can take a step: it is at its start, or
\* the call it made has returned.
CanStep == Top.pc = "enter" \/ ret # None

\* C1: colour_at(world, ray, d) terminates: the calls have taken at most
\* StepBound(d) steps, and either colour_at has returned its colour or a
\* call can take a next step; at no time are more than d + 1 calls of
\* colour_at nested (so no more than 3 (d + 1) calls in all).
C1_ColourAtTerminates ==
    /\ steps <= StepBound(budget)
    /\ IF stack = <<>> THEN ret # None ELSE CanStep
    /\ NestedColourAt <= budget + 1
    /\ Len(stack) <= 3 * (budget + 1)

\* Between the two mirrors the chain of nested colour_at calls has reached
\* its full length d + 1 for the largest budget, and the last call of the
\* chain has no budget left.
C1_Witness ==
    /\ world = MirrorWorld
    /\ budget = MaxRecursion
    /\ NestedColourAt = budget + 1
    /\ Running("reflected_colour", "enter")
    /\ Top.remaining_recursions = 0

\* C6: a colour_at call whose ray has no intersection with t >= 0 in the
\* world returned black; any other returned shade_hit of the precomputation
\* built from the hit and the sorted list of all the intersections.
C6_BlackOrShadeHit ==
    last # None =>
        LET r == last[1].r
            intersections == Ray_intersects_world(r, world)
            hit == Intersection_hit(intersections)
        IN  IF NonNegative(intersections) = {}
            THEN last[1].result = Colour_new(R(0), R(0), R(0))
            ELSE /\ hit # None
                 /\ last[1].result =
                        shade_hit(world,
                                  prepare_computations(world.objects, hit[1], r, intersections),
                                  last[1].remaining_recursions)

\* colour_at has returned black for a ray all of whose intersections are
\* behind its origin.
C6_Witness ==
    /\ stack = <<>>
    /\ world = DefaultWorld /\ ray = AlongZ(5)
    /\ Len(Ray_intersects_world(ray, world)) = 4
    /\ NonNegative(Ray_intersects_world(ray, world)) = {}
    /\ last = Some([r |-> ray, remaining_recursions |-> budget,
                    result |-> Colour_new(R(0), R(0), R(0))])

(***************************************************************************)
(* C4, C5: what hit and intersects_world return.                           *)
(***************************************************************************)

\* C4: Intersection::hit returns None exactly when no intersection has
\* t >= 0; otherwise it returns one of the intersections with t >= 0, and no
\* other intersection with t >= 0 is lower than it by EPSILON or more (values
\* closer than EPSILON count as equal).
C4_HitIsLowestNonNegative ==
    rpc = "hit" =>
        /\ hitres = None <=> NonNegative(inters) = {}
        /\ hitres # None =>
              /\ \E i \in NonNegative(inters) : inters[i] = hitres[1]
              /\ \A j \in NonNegative(inters) :
                     RLt(RSub(hitres[1].t, inters[j].t), EPSILON_rays)

\* hit has passed over an intersection behind the origin and has kept the
\* first of two non-negative ones that are closer together than EPSILON.
C4_Witness ==
    /\ rpc = "hit"
    /\ inters = << Intersection_new(Q(1, 512), 1), Intersection_new(R(-1), 1),
                   Intersection_new(R(0), 2) >>
    /\ hitres = Some(Intersection_new(Q(1, 512), 1))

\* The shapes a ray is inside of after the first n intersections of v: those
\* it has crossed an odd number of times.
Open(v, n) ==
    {o \in {v[j].object : j \in 1..n} : Cardinality({j \in 1..n : v[j].object = o}) % 2 = 1}
LastCrossing(v, n, o) == CHOOSE j \in 1..n : v[j].object = o /\ \A m \in (j + 1)..n : v[m].object # o
\* The refractive index of the shape entered last among those, or that of air.
Innermost(objects, v, n) ==
    IF Open(v, n) = {} THEN R(1)
    ELSE LET o == CHOOSE a \in Open(v, n) :
                      \A b \in Open(v, n) : LastCrossing(v, n, b) <= LastCrossing(v, n, a)
         IN  objects[o].material.refractive_index

\* The n1 and n2 of the six intersections of the test, in order.
GlassExpected ==
    << <<R(1), Q(3, 2)>>, <<Q(3, 2), R(2)>>, <<R(2), Q(5, 2)>>,
       <<Q(5, 2), Q(5, 2)>>, <<Q(5, 2), Q(3, 2)>>, <<Q(3, 2), R(1)>> >>

\* C2: for the intersection prepare_computations is given, n1 is the
\* refractive index of the shape entered last among those the ray is inside
\* of before that intersection (1.0 if none) and n2 the same after it; for the
\* spheres A(1.5), B(2.0), C(2.5) crossed in the order A, B, C, B, C, A the
\* pairs are (1.0,1.5), (1.5,2.0), (2.0,2.5), (2.5,2.5), (2.5,1.5), (1.5,1.0).
C2_RefractiveIndices ==
    rpc = "prepared" =>
        LET i == [t |-> comps[1].t, object |-> comps[1].object]
            k == CHOOSE j \in DOMAIN inters :
                     inters[j] = i /\ \A m \in 1..(j - 1) : inters[m] # i
        IN  /\ comps[1].n1 = Innermost(world.objects, inters, k - 1)
            /\ comps[1].n2 = Innermost(world.objects, inters, k)
            /\ (world = GlassWorld /\ ray = AlongZ(-4)) =>
                   /\ [j \in DOMAIN inters |-> inters[j].object] = <<1, 2, 3, 2, 3, 1>>
                   /\ <<comps[1].n1, comps[1].n2>> = GlassExpected[k]

\* prepare_computations has been given the fourth intersection of the test,
\* where the ray leaves B inside C: n1 = n2 = 2.5.
C2_Witness ==
    /\ rpc = "prepared"
    /\ world = GlassWorld /\ ray = AlongZ(-4)
    /\ comps[1].t = Q(19, 4) /\ comps[1].object = 2
    /\ comps[1].n1 = Q(5, 2) /\ comps[1].n2 = Q(5, 2)

Perms(n) == {p \in [1..n -> 1..n] : \A i, j \in 1..n : p[i] = p[j] => i = j}

\* C5: intersects_world returns the intersections of every shape of the
\* world, each once (p matches the result against the per-shape results in
\* world order), no intersection comes after one that compares greater, and
\* intersections that compare equal keep the order in which they were found.
C5_SortedStableUnion ==
    rpc = "intersected" =>
        LET found == AppendAll(world.objects, 1, ray)
        IN  /\ Len(inters) = Len(found)
            /\ \E p \in Perms(Len(found)) :
                   /\ \A i \in DOMAIN inters : inters[i] = found[p[i]]
                   /\ \A i, j \in DOMAIN inters :
                          (i < j /\ Intersection_partial_cmp(inters[i], inters[j]) = "Equal")
                              => p[i] < p[j]
            /\ \A i, j \in DOMAIN inters :
                   i < j => Intersection_partial_cmp(inters[i], inters[j]) # "Greater"

(***************************************************************************)
(* C10                                                                     *)
(***************************************************************************)
\* What one operation does to a tuple, stated on its coordinates and without
\* any matrix: the meaning the chained matrix is compared against.
MoveTuple(o, p) ==
    LET a == o.args
    IN  CASE o.op = "translate" ->
                Tuple_new(RAdd(p.x, RMul(R(a[1]), p.w)), RAdd(p.y, RMul(R(a[2]), p.w)),
                          RAdd(p.z, RMul(R(a[3]), p.w)), p.w)
          [] o.op = "scale" ->
                Tuple_new(RMul(R(a[1]), p.x), RMul(R(a[2]), p.y), RMul(R(a[3]), p.z), p.w)
          [] o.op = "rotate_x" ->
                Tuple_new(p.x,
                          RSub(RMul(Cos(a[1]), p.y), RMul(Sin(a[1]), p.z)),
                          RAdd(RMul(Sin(a[1]), p.y), RMul(Cos(a[1]), p.z)), p.w)
          [] o.op = "rotate_y" ->
                Tuple_new(RAdd(RMul(Cos(a[1]), p.x), RMul(Sin(a[1]), p.z)),
                          p.y,
                          RSub(RMul(Cos(a[1]), p.z), RMul(Sin(a[1]), p.x)), p.w)
          [] o.op = "rotate_z" ->
                Tuple_new(RSub(RMul(Cos(a[1]), p.x), RMul(Sin(a[1]), p.y)),
                          RAdd(RMul(Sin(a[1]), p.x), RMul(Cos(a[1]), p.y)),
                          p.z, p.w)
          [] o.op = "shear" ->
                Tuple_new(RAdd(p.x, RAdd(RMul(R(a[1]), p.y), RMul(R(a[2]), p.z))),
                          RAdd(p.y, RAdd(RMul(R(a[3]), p.x), RMul(R(a[4]), p.z))),
                          RAdd(p.z, RAdd(RMul(R(a[5]), p.x), RMul(R(a[6]), p.y))), p.w)

\* The operations of a chain applied to p one after the other, oldest first.
RECURSIVE MoveInOrder(_, _)
MoveInOrder(ops, p) ==
    IF ops = <<>> THEN p ELSE MoveInOrder(Tail(ops), MoveTuple(Head(ops), p))

\* The matrix of one operation, from the free constructors.
OpMatrix(o) ==
    LET a == o.args
    IN  CASE o.op = "translate" -> translation(R(a[1]), R(a[2]), R(a[3]))
          [] o.op = "scale" -> scale(R(a[1]), R(a[2]), R(a[3]))
          [] o.op = "rotate_x" -> rotation_x(a[1])
          [] o.op = "rotate_y" -> rotation_y(a[1])
          [] o.op = "rotate_z" -> rotation_z(a[1])
          [] o.op = "shear" -> shear(R(a[1]), R(a[2]), R(a[3]), R(a[4]), R(a[5]), R(a[6]))

\* Op_n x ... x Op_2 x Op_1: the newest operation leftmost.
RECURSIVE NewestLeftmost(_)
NewestLeftmost(ops) ==
    IF ops = <<>> THEN Matrix_identity
    ELSE MatMul(OpMatrix(ops[Len(ops)]), NewestLeftmost(SubSeq(ops, 1, Len(ops) - 1)))

ProbeTuples ==
    {point_new(R(1), R(0), R(1)), point_new(R(2), R(3), R(4)),
     vector_new(R(-3), R(4), R(5))}

\* C10: chained builders apply in chaining order.  The matrix a chain has
\* built is the product of its operations' matrices with the newest one on
\* the left (each builder left-multiplies), and applied to a tuple it does
\* what the operations do one after the other, the first one chained first.
C10_ChainingOrder ==
    /\ transform = NewestLeftmost(chain)
    /\ \A p \in ProbeTuples : MulTuple(transform, p) = MoveInOrder(chain, p)

\* The chain of tests::transformation_sequence: rotate_x(PI/2), scale(5,5,5),
\* translate(10,5,7) takes the point (1,0,1) to (15,0,7).
C10_Witness ==
    /\ chain = << [op |-> "rotate_x", args |-> <<1>>],
                  [op |-> "scale", args |-> <<5, 5, 5>>],
                  [op |-> "translate", args |-> <<10, 5, 7>>] >>
    /\ MulTuple(transform, point_new(R(1), R(0), R(1))) = point_new(R(15), R(0), R(7))
    /\ transform = MatMul(translation(R(10), R(5), R(7)),
                          MatMul(scale(R(5), R(5), R(5)), rotation_x(1)))


(***************************************************************************)
(* SpecCalls: the functions of lighting.rs, shapes.rs, matrices.rs and     *)
(* tuple.rs called on their own, as the unit tests call them.  call holds  *)
(* the function and its arguments, returned what the call gave back.       *)
(***************************************************************************)
\* Where the lights of a world are put (World::default, lighting.rs tests).
LightPositions ==
    {point_new(R(0), R(0), R(-10)), point_new(R(0), R(10), R(0)),
     point_new(R(0), R(1), R(0))}

\* A plane through the light and a plane half an EPSILON below it, the
\* farther one first in world.objects; the light is straight above the origin.
StraddleWorld ==
    [objects |-> <<PlaneAt(R(1)), PlaneAt(Q(511, 512))>>,
     lights |-> <<PointLight_new(Colour_white, point_new(R(0), R(1), R(0)))>>]

\* The worlds and points is_shadowed is called on: the four tests of
\* lighting.rs on World::default (nothing between point and light, an object
\* between them, the object behind the light, the object behind the point),
\* a plane between point and light, and planes closer together than EPSILON.
ShadowCases ==
    {[w |-> DefaultWorld, p |-> point_new(R(0), R(10), R(-10))],
     [w |-> DefaultWorld, p |-> point_new(R(0), R(0), R(5))],
     [w |-> DefaultWorld, p |-> point_new(R(0), R(0), R(-20))],
     [w |-> DefaultWorld, p |-> point_new(R(0), R(0), R(-5))],
     [w |-> CoincidentWorld, p |-> point_new(R(0), R(-2), R(-10))],
     [w |-> CoincidentWorld, p |-> point_new(R(0), R(2), R(-10))],
     [w |-> StraddleWorld, p |-> point_new(R(0), R(0), R(0))],
     [w |-> StraddleWorld, p |-> point_new(R(0), R(2), R(0))]}

\* The rays the shapes are intersected with in object space: the origins of
\* the tests of rays.rs and shapes.rs (ahead of the unit sphere, level with
\* its top, above it, at its centre, behind it) and directions along the
\* axes, level and slanted, of length one and of other lengths.
ObjectOrigins ==
    {point_new(R(0), R(0), R(-5)), point_new(R(0), R(1), R(-5)),
     point_new(R(0), R(2), R(-5)), point_new(R(0), R(0), R(0)),
     point_new(R(0), R(0), R(5)), point_new(R(0), R(10), R(0)),
     point_new(R(0), R(-1), R(0))}
ObjectDirections ==
    {vector_new(R(0), R(0), R(1)), vector_new(R(0), R(0), R(2)),
     vector_new(R(0), R(0), Q(1, 2)), vector_new(R(0), R(-1), R(0)),
     vector_new(R(0), R(1), R(0)), vector_new(R(0), R(2), R(0)),
     vector_new(R(0), Q(1, 2), R(0)), vector_new(R(0), R(3), R(4)),
     vector_new(R(0), Q(1, 128), R(1))}
ObjectRays == {Ray_new(o, d) : o \in ObjectOrigins, d \in ObjectDirections}

\* A 4x4 matrix from its rows of whole numbers (Matrix::from_array).
Matrix_from_array(rows) == [i \in 1..4 |-> [j \in 1..4 |-> R(rows[i][j])]]

\* The matrices inverse is called on: the two of tests::invertibility_check
\* (the second has a row of zeros), the one of tests::inverse, matrices
\* with two equal rows, with two equal columns and with a row that is the
\* sum of two others, and transforms, one of them flattening the x axis.
InverseArgs ==
    {Matrix_from_array(<<<<-2, -8, 3, 5>>, <<-3, 1, 7, 3>>, <<1, 2, -9, 6>>, <<-6, 7, 7, -9>>>>),
     Matrix_from_array(<<<<-4, 2, -2, -3>>, <<9, 6, 2, 6>>, <<0, -5, 1, -5>>, <<0, 0, 0, 0>>>>),
     Matrix_from_array(<<<<-5, 2, 6, -8>>, <<1, -5, 1, 8>>, <<7, 7, -6, -7>>, <<1, -3, 7, 4>>>>),
     Matrix_from_array(<<<<1, 2, 3, 4>>, <<0, 1, 0, 2>>, <<1, 2, 3, 4>>, <<0, 0, 0, 1>>>>),
     Matrix_from_array(<<<<1, 1, 3, 4>>, <<2, 2, 0, 2>>, <<3, 3, 1, 0>>, <<4, 4, 0, 1>>>>),
     Matrix_from_array(<<<<1, 2, 0, 1>>, <<0, 1, 1, 2>>, <<1, 3, 1, 3>>, <<2, 0, 1, 1>>>>),
     Matrix_from_array(<<<<0, 1, 0, 0>>, <<1, 0, 0, 0>>, <<0, 0, 1, 0>>, <<0, 0, 0, 1>>>>),
     Matrix_identity,
     translation(R(5), R(-3), R(2)),
     scale(R(2), R(3), R(4)),
     scale(R(0), R(1), R(1)),
     MatMul(translation(R(1), R(2), R(3)), scale(R(2), R(2), R(2)))}

\* The tuples dot, cross, reflect, + and - are called on: vectors, points,
\* and tuples that are neither (the sum of two points, the negation of one).
TupleArgs ==
    {vector_new(R(1), R(2), R(3)), vector_new(R(2), R(3), R(4)),
     vector_new(R(0), R(1), R(0)), point_new(R(1), R(2), R(3)),
     point_new(R(0), R(0), R(0)), point_new(R(3), R(-2), R(5)),
     Tuple_new(R(1), R(2), R(3), R(2)), Tuple_new(R(1), R(2), R(3), R(-1))}

\* Translations and scalings, and the transforms built from two of them.
\* The scalings are by powers of two, whose inverses the model's numbers
\* hold exactly.
Translations == {translation(R(5), R(-3), R(2)), translation(Q(-1, 2), R(0), R(7))}
Scalings == {scale(R(2), R(4), Q(1, 2)), scale(R(-1), R(1), R(2))}
Transforms ==
    Translations \cup Scalings
        \cup {MatMul(a, b) : a, b \in Translations \cup Scalings}
\* The points of tests::translate_point and tests::scale_point, and others.
PointArgs ==
    {point_new(R(-3), R(4), R(5)), point_new(R(-4), R(6), R(8)),
     point_new(R(0), R(0), R(0)), point_new(Q(1, 2), R(-1), Q(3, 4))}

(***************************************************************************)
(* yaml.rs: the "transform" list of a shape.  An entry [name, n, ..] of    *)
(* the list is a record of its name op and its numbers args; the angle of  *)
(* a rotation is in quarter turns.                                         *)
(***************************************************************************)
\* parse_number: Yaml::Integer(x) => x as f64
parse_number(num) == R(num)

\* transform_type_and_data: the TransformType of an entry
transform_type_and_data(entry) ==
    CASE entry.op = "rotate-x" -> [type |-> "RotateX", a |-> entry.args[1]]
      [] entry.op = "rotate-y" -> [type |-> "RotateY", a |-> entry.args[1]]
      [] entry.op = "rotate-z" -> [type |-> "RotateZ", a |-> entry.args[1]]
      [] entry.op = "translate" ->
            [type |-> "Translate", x |-> parse_number(entry.args[1]),
             y |-> parse_number(entry.args[2]), z |-> parse_number(entry.args[3])]
      [] entry.op = "scale" ->
            [type |-> "Scale", x |-> parse_number(entry.args[1]),
             y |-> parse_number(entry.args[2]), z |-> parse_number(entry.args[3])]

\* The match of parse_transforms: the matrix of a TransformType
TransformMatrix(t) ==
    CASE t.type = "RotateX" -> rotation_x(t.a)
      [] t.type = "RotateY" -> rotation_y(t.a)
      [] t.type = "RotateZ" -> rotation_z(t.a)
      [] t.type = "Scale" -> scale(t.x, t.y, t.z)
      [] t.type = "Translate" -> translation(t.x, t.y, t.z)

\* The loop of parse_transforms with the list taken from its first entry
\* to its last.
RECURSIVE parse_transforms_forward(_)
parse_transforms_forward(ts) ==
    IF ts = <<>> THEN Matrix_identity
    ELSE MatMul(parse_transforms_forward(SubSeq(ts, 1, Len(ts) - 1)),
                TransformMatrix(transform_type_and_data(ts[Len(ts)])))

\* for transform in ts.iter().rev() { out = out * .. }: the entries from
\* the last to the first, each multiplied on the right of out
RECURSIVE ParseLoop(_, _, _)
ParseLoop(out, ts, k) ==
    IF k = 0 THEN out
    ELSE ParseLoop(MatMul(out, TransformMatrix(transform_type_and_data(ts[k]))), ts, k - 1)
parse_transforms(ts) == ParseLoop(Matrix_identity, ts, Len(ts))

\* The entries of the lists: those of tests::reads_in_several_transforms
\* and others.
YamlTransforms ==
    {[op |-> "rotate-x", args |-> <<1>>], [op |-> "rotate-y", args |-> <<1>>],
     [op |-> "rotate-z", args |-> <<3>>], [op |-> "scale", args |-> <<5, 5, 5>>],
     [op |-> "scale", args |-> <<2, 3, 4>>], [op |-> "translate", args |-> <<10, 5, 7>>]}
YamlLists == UNION {[1..n -> YamlTransforms] : n \in 0..MaxChain}

\* The calls of calculate_lighting: those of the tests of lighting.rs at the
\* point (0, 0, 0), and the same with a coloured material, a coloured light,
\* other positions of the light and another normal.
DullMaterial ==
    [Material_default EXCEPT !.colour = Colour_new(R(1), Q(1, 2), Q(1, 4)),
                             !.ambient = Q(1, 4), !.diffuse = Q(1, 2),
                             !.specular = Q(1, 2), !.shininess = 2]
LightingCases ==
    {[material |-> material, light |-> PointLight_new(intensity, position),
      posn |-> point_new(R(0), R(0), R(0)), eye_vec |-> eye_vec, normal |-> normal,
      in_shadow |-> in_shadow] :
        material \in {Material_default, DullMaterial},
        intensity \in {Colour_new(R(1), R(1), R(1)), Colour_new(Q(1, 2), R(1), R(1))},
        position \in {point_new(R(0), R(0), R(-10)), point_new(R(0), R(10), R(-10)),
                      point_new(R(0), R(0), R(10)), point_new(R(0), R(-10), R(10)),
                      point_new(R(3), R(-4), R(0))},
        eye_vec \in {vector_new(R(0), R(0), R(-1)), vector_new(R(0), R(1), R(0))},
        normal \in {vector_new(R(0), R(0), R(-1)), vector_new(R(0), R(1), R(0))},
        in_shadow \in BOOLEAN}
    \cup
    \* the light at the point itself, where the direction to it is not a
    \* number: only the calls that do not use the direction
    {[material |-> material,
      light |-> PointLight_new(Colour_new(R(1), R(1), R(1)), point_new(R(0), R(0), R(0))),
      posn |-> point_new(R(0), R(0), R(0)), eye_vec |-> vector_new(R(0), R(0), R(-1)),
      normal |-> vector_new(R(0), R(0), R(-1)), in_shadow |-> TRUE] :
        material \in {Material_default, DullMaterial}}

\* The precomputations schlick is called on: the surface of the first shape
\* of GlassMirrorWorld, which reflects and is transparent, with the normal
\* (0, 0, -1), between media of several indices and seen from several
\* angles: head on, at 45 degrees as in
\* tests::shlick_approximation_under_total_internal_reflection, at the
\* angles with cosine 3/5, 4/5 and sqrt(3)/2, along the surface, and from
\* behind.
SchlickEyes ==
    {vector_new(R(0), R(0), R(-1)), vector_new(R(0), Q(181, 256), Q(-181, 256)),
     vector_new(R(0), Q(4, 5), Q(-3, 5)), vector_new(R(0), Q(3, 5), Q(-4, 5)),
     vector_new(R(0), Q(1, 2), Q(-887, 1024)), vector_new(R(0), R(1), R(0)),
     vector_new(R(0), R(0), R(1))}
SchlickIndices == {R(1), Q(5, 4), Q(3, 2), R(2)}
SchlickCases ==
    {[object |-> 1, eye_vec |-> eye_vec, normal |-> vector_new(R(0), R(0), R(-1)),
      n1 |-> n1, n2 |-> n2] : eye_vec \in SchlickEyes, n1 \in SchlickIndices, n2 \in SchlickIndices}

\* The normal of a call of normal_at in world space, before normalise.
WorldSpaceNormal(c) ==
    LET transform_inverse == Matrix_inverse(c.transform)
    IN  MulTuple(Matrix_transpose(transform_inverse),
                 IF c.shape = "Sphere"
                 THEN sphere_normal_at(MulTuple(transform_inverse, c.point))
                 ELSE plane_normal_at)

\* The calls of normal_at: spheres and planes under the transforms of the
\* tests of shapes.rs (a translation, a rotation, a rotation after a scaling)
\* and others, at points on and off the shapes.  A shape is not asked for a
\* normal of length 0, which has no direction: that of a sphere at its
\* centre.
NormalTransforms ==
    {Matrix_identity, translation(R(0), R(1), R(0)), translation(R(5), R(-3), R(2)),
     scale(R(2), R(4), Q(1, 2)), rotation_x(1),
     MatMul(rotation_z(1), scale(R(1), Q(1, 2), R(1))),
     MatMul(translation(R(0), R(1), R(0)), scale(R(2), R(4), Q(1, 2))),
     MatMul(translation(R(5), R(-3), R(2)), rotation_x(1))}
NormalPoints ==
    {point_new(R(1), R(0), R(0)), point_new(R(0), Q(3, 2), Q(-1, 2)),
     point_new(Q(1, 2), R(-1), Q(3, 4)), point_new(R(0), R(0), R(0))}
NormalCases ==
    {c \in [shape : {"Sphere", "Plane"}, transform : NormalTransforms, point : NormalPoints] :
        Tuple_magnitude(WorldSpaceNormal(c)) # R(0)}

InitCalls ==
    /\ IdleMatrix
    /\ IdleRays
    /\ IdleRender
    /\ IdleShade
    /\ returned = None
    /\ \/ \E c \in NormalCases : call = Some([fn |-> "normal_at", c |-> c])
       \/ \E c \in SchlickCases : call = Some([fn |-> "schlick", c |-> c])
       \/ \E c \in LightingCases : call = Some([fn |-> "calculate_lighting", c |-> c])
       \/ \E ts \in YamlLists : call = Some([fn |-> "parse_transforms", ts |-> ts])
       \/ \E c \in ShadowCases :
            call = Some([fn |-> "is_shadowed", w |-> c.w, p |-> c.p])
       \/ \E shape \in 1..2, r \in ObjectRays :
            call = Some([fn |-> "sphere::intersects", shape |-> shape, r |-> r])
       \/ \E shape \in 1..2, r \in ObjectRays :
            call = Some([fn |-> "plane::intersects", shape |-> shape, r |-> r])
       \/ \E m \in InverseArgs : call = Some([fn |-> "inverse", m |-> m])
       \/ \E m \in Transforms, p \in PointArgs :
            call = Some([fn |-> "inverse * (m * p)", m |-> m, p |-> p])
       \/ \E m \in Translations, p \in PointArgs :
            call = Some([fn |-> "inverse * p", m |-> m, p |-> p])
       \/ \E m \in Translations, t \in TupleArgs :
            call = Some([fn |-> "m * t", m |-> m, t |-> t])
       \/ \E fn \in {"dot", "cross", "reflect", "+", "-"}, a, b \in TupleArgs :
            call = Some([fn |-> fn, a |-> a, b |-> b])

\* w.lights.push(PointLight::new(..)): a light after the first
PushLight ==
    /\ call[1].fn = "is_shadowed"
    /\ Len(call[1].w.lights) < MaxLights
    /\ \E q \in LightPositions :
            call' = Some([call[1] EXCEPT
                            !.w.lights = Append(@, PointLight_new(Colour_white, q))])
    /\ returned' = None

\* w.lights.pop(): the last light, never the first
PopLight ==
    /\ call[1].fn = "is_shadowed"
    /\ Len(call[1].w.lights) > 1
    /\ call' = Some([call[1] EXCEPT !.w.lights = SubSeq(@, 1, Len(@) - 1)])
    /\ returned' = None

\* w.lights[k].position = q, for a light after the first
MoveLight ==
    /\ call[1].fn = "is_shadowed"
    /\ \E k \in 2..Len(call[1].w.lights), q \in LightPositions :
            /\ call[1].w.lights[k].position # q
            /\ call' = Some([call[1] EXCEPT !.w.lights[k].position = q])
    /\ returned' = None

\* is_shadowed(&w, &p)
IsShadowed ==
    /\ call[1].fn = "is_shadowed"
    /\ returned = None
    /\ returned' = Some(is_shadowed(call[1].w, call[1].p))
    /\ UNCHANGED call

\* sphere::intersects(&s, &r): s is the shape number call.shape
SphereIntersects ==
    /\ call[1].fn = "sphere::intersects"
    /\ returned = None
    /\ returned' = Some(sphere_intersects(call[1].shape, call[1].r))
    /\ UNCHANGED call

\* plane::intersects(&p, &r): p is the shape number call.shape
PlaneIntersects ==
    /\ call[1].fn = "plane::intersects"
    /\ returned = None
    /\ returned' = Some(plane_intersects(call[1].shape, call[1].r))
    /\ UNCHANGED call

\* m.inverse()
Inverse ==
    /\ call[1].fn = "inverse"
    /\ returned = None
    /\ returned' = Some(Matrix_inverse(call[1].m))
    /\ UNCHANGED call

\* a.dot(&b)
Dot ==
    /\ call[1].fn = "dot"
    /\ returned = None
    /\ returned' = Some(Tuple_dot(call[1].a, call[1].b))
    /\ UNCHANGED call

\* a.cross(&b)
Cross ==
    /\ call[1].fn = "cross"
    /\ returned = None
    /\ returned' = Some(Tuple_cross(call[1].a, call[1].b))
    /\ UNCHANGED call

\* a.reflect(&b)
Reflect ==
    /\ call[1].fn = "reflect"
    /\ returned = None
    /\ returned' = Some(Tuple_reflect(call[1].a, call[1].b))
    /\ UNCHANGED call

\* m.inverse() * &(m * &p)
InverseOfProduct ==
    /\ call[1].fn = "inverse * (m * p)"
    /\ returned = None
    /\ returned' = Some(MulTuple(Matrix_inverse(call[1].m), MulTuple(call[1].m, call[1].p)))
    /\ UNCHANGED call

\* m.inverse() * &p (tests::inverse_translate_point)
InverseTimesPoint ==
    /\ call[1].fn = "inverse * p"
    /\ returned = None
    /\ returned' = Some(MulTuple(Matrix_inverse(call[1].m), call[1].p))
    /\ UNCHANGED call

\* a + b
Add ==
    /\ call[1].fn = "+"
    /\ returned = None
    /\ returned' = Some(Tuple_add(call[1].a, call[1].b))
    /\ UNCHANGED call

\* a - b
Sub ==
    /\ call[1].fn = "-"
    /\ returned = None
    /\ returned' = Some(Tuple_sub(call[1].a, call[1].b))
    /\ UNCHANGED call

\* m * &t (tests::translate_point, tests::translation_doesnt_change_vector)
MatrixTimesTuple ==
    /\ call[1].fn = "m * t"
    /\ returned = None
    /\ returned' = Some(MulTuple(call[1].m, call[1].t))
    /\ UNCHANGED call

\* parse_transforms(&config["transform"])
ParseTransforms ==
    /\ call[1].fn = "parse_transforms"
    /\ returned = None
    /\ returned' = Some(parse_transforms(call[1].ts))
    /\ UNCHANGED call

\* calculate_lighting(&m, &s, &light, &posn, &eye_vec, &normal_vec, in_shadow)
CalculateLighting ==
    /\ call[1].fn = "calculate_lighting"
    /\ returned = None
    /\ LET c == call[1].c
       IN  returned' = Some(calculate_lighting(c.material, c.light, c.posn, c.eye_vec,
                                               c.normal, c.in_shadow))
    /\ UNCHANGED call

\* schlick(&comps): the reflectance it returns, and whether it returned from
\* inside its n1 > n2 branch
Schlick ==
    /\ call[1].fn = "schlick"
    /\ returned = None
    /\ returned' = Some([reflectance |-> schlick(call[1].c),
                         early_return |-> schlick_returns_early(call[1].c)])
    /\ UNCHANGED call

\* s.normal_at(&point)
NormalAt ==
    /\ call[1].fn = "normal_at"
    /\ returned = None
    /\ LET c == call[1].c
       IN  returned' = Some(Shape_normal_at([Shape_default EXCEPT !.shape = c.shape,
                                                                  !.transform = c.transform],
                                            c.point))
    /\ UNCHANGED call

NextCalls ==
    \/ NormalAt /\ UNCHANGED <<matVars, rayVars, renderVars, shadeVars>>
    \/ Schlick /\ UNCHANGED <<matVars, rayVars, renderVars, shadeVars>>
    \/ CalculateLighting /\ UNCHANGED <<matVars, rayVars, renderVars, shadeVars>>
    \/ ParseTransforms /\ UNCHANGED <<matVars, rayVars, renderVars, shadeVars>>
    \/ Add /\ UNCHANGED <<matVars, rayVars, renderVars, shadeVars>>
    \/ Sub /\ UNCHANGED <<matVars, rayVars, renderVars, shadeVars>>
    \/ MatrixTimesTuple /\ UNCHANGED <<matVars, rayVars, renderVars, shadeVars>>
    \/ InverseOfProduct /\ UNCHANGED <<matVars, rayVars, renderVars, shadeVars>>
    \/ InverseTimesPoint /\ UNCHANGED <<matVars, rayVars, renderVars, shadeVars>>
    \/ Dot /\ UNCHANGED <<matVars, rayVars, renderVars, shadeVars>>
    \/ Cross /\ UNCHANGED <<matVars, rayVars, renderVars, shadeVars>>
    \/ Reflect /\ UNCHANGED <<matVars, rayVars, renderVars, shadeVars>>
    \/ Inverse /\ UNCHANGED <<matVars, rayVars, renderVars, shadeVars>>
    \/ PlaneIntersects /\ UNCHANGED <<matVars, rayVars, renderVars, shadeVars>>
    \/ SphereIntersects /\ UNCHANGED <<matVars, rayVars, renderVars, shadeVars>>
    \/ PushLight /\ UNCHANGED <<matVars, rayVars, renderVars, shadeVars>>
    \/ PopLight /\ UNCHANGED <<matVars, rayVars, renderVars, shadeVars>>
    \/ MoveLight /\ UNCHANGED <<matVars, rayVars, renderVars, shadeVars>>
    \/ IsShadowed /\ UNCHANGED <<matVars, rayVars, renderVars, shadeVars>>

SpecCalls == InitCalls /\ [][NextCalls]_vars

(***************************************************************************)
(* C11: is_shadowed.                                                       *)
(***************************************************************************)
\* The intersections of every shape of w with the ray from p toward the
\* light, before they are sorted.
TowardLight(w, light, p) ==
    AppendAll(w.objects, 1, Ray_new(p, Tuple_normalise(Tuple_sub(light.position, p))))

\* Some intersection at t >= 0 is the nearest of them and lies strictly
\* before the light.
NearestBeforeLight(w, light, p) ==
    LET xs == TowardLight(w, light, p)
    IN  \E i \in NonNegative(xs) :
            /\ \A j \in NonNegative(xs) : RLe(xs[i].t, xs[j].t)
            /\ RLt(xs[i].t, Tuple_magnitude(Tuple_sub(light.position, p)))

\* C11, second half: is_shadowed gives what it gives on the same world with
\* the first light alone, so the lights at index >= 1 do not matter.
C11_OnlyFirstLight ==
    (returned # None /\ call[1].fn = "is_shadowed") =>
        returned[1] = is_shadowed([call[1].w EXCEPT !.lights = <<@[1]>>], call[1].p)

\* C11: is_shadowed(world, p) is true exactly when the nearest intersection
\* with t >= 0 along the ray from p toward world.lights[0] has t strictly less
\* than the distance from p to that light, whatever the lights at index >= 1.
C11_ShadowedIffNearestBeforeLight ==
    (returned # None /\ call[1].fn = "is_shadowed") =>
        returned[1] = NearestBeforeLight(call[1].w, call[1].w.lights[1], call[1].p)

\* The same statement away from intersections closer together than EPSILON.
C11_ExceptStraddle ==
    (returned # None /\ call[1].fn = "is_shadowed" /\ call[1].w.objects # StraddleWorld.objects)
        => returned[1] = NearestBeforeLight(call[1].w, call[1].w.lights[1], call[1].p)

(***************************************************************************)
(* C12, C13: the shapes' intersections in object space.                    *)
(***************************************************************************)
\* b^2 - 4ac of the ray against the unit sphere at the origin.
Discriminant(r) ==
    LET o == Tuple_sub(r.origin, point_new(R(0), R(0), R(0)))
    IN  RSub(RSquare(RMul(R(2), Tuple_dot(r.direction, o))),
             RMul(RMul(R(4), Tuple_dot(r.direction, r.direction)),
                  RSub(Tuple_dot(o, o), R(1))))

\* C12: sphere::intersects returns no intersection when the discriminant is
\* negative; otherwise exactly two, both on the sphere it was given, with
\* t1 <= t2 and t1 = t2 exactly at tangency (discriminant zero); a negative
\* t is returned like any other.
C12_SphereTwoOrNone ==
    (returned # None /\ call[1].fn = "sphere::intersects") =>
        LET xs == returned[1]
            d == Discriminant(call[1].r)
        IN  /\ RLt(d, R(0)) => xs = <<>>
            /\ RGe(d, R(0)) =>
                  /\ Len(xs) = 2
                  /\ xs[1].object = call[1].shape /\ xs[2].object = call[1].shape
                  /\ RLe(xs[1].t, xs[2].t)
                  /\ (d = R(0)) => xs[1].t = xs[2].t
                  /\ RGt(d, R(0)) => RLt(xs[1].t, xs[2].t)

\* The second of two spheres, a ray from its centre: one intersection behind
\* the origin and one ahead, both on that sphere.
C12_Witness ==
    /\ call = Some([fn |-> "sphere::intersects", shape |-> 2,
                    r |-> Ray_new(point_new(R(0), R(0), R(0)), vector_new(R(0), R(0), R(1)))])
    /\ returned = Some(<<Intersection_new(R(-1), 2), Intersection_new(R(1), 2)>>)

\* What C13 says of one call of plane::intersects on the ray r.
PlaneOneOrNone(shape, r, xs) ==
    /\ RLt(RAbs(r.direction.y), Q(1, 64)) => xs = <<>>
    /\ RGe(RAbs(r.direction.y), Q(1, 64)) =>
          xs = <<Intersection_new(RDiv(RNeg(r.origin.y), r.direction.y), shape)>>

\* C13: plane::intersects returns no intersection when |direction.y| is below
\* the epsilon (a ray in the plane, origin.y = 0, included); otherwise exactly
\* one, on the plane it was given, at t = -origin.y / direction.y, whether
\* or not the direction has unit length.
C13_PlaneOneOrNone ==
    (returned # None /\ call[1].fn = "plane::intersects") =>
        PlaneOneOrNone(call[1].shape, call[1].r, returned[1])

\* The same statement for the directions of unit length only.
C13_UnitDirections ==
    (/\ returned # None
     /\ call[1].fn = "plane::intersects"
     /\ Tuple_magnitude(call[1].r.direction) = R(1)) =>
        PlaneOneOrNone(call[1].shape, call[1].r, returned[1])

(***************************************************************************)
(* C14: Matrix::inverse and the determinant.                               *)
(***************************************************************************)
\* The determinant of a matrix of whole numbers by the sum over the
\* permutations of the columns, in whole numbers.
Sign(p) ==
    IF Cardinality({ij \in (1..4) \X (1..4) : ij[1] < ij[2] /\ p[ij[1]] > p[ij[2]]}) % 2 = 0
    THEN 1 ELSE -1
RECURSIVE LeibnizSum(_, _)
LeibnizSum(m, ps) ==
    IF ps = {} THEN 0
    ELSE LET p == CHOOSE q \in ps : TRUE
         IN  Sign(p) * (m[1][p[1]] \div 1024) * (m[2][p[2]] \div 1024)
                     * (m[3][p[3]] \div 1024) * (m[4][p[4]] \div 1024)
             + LeibnizSum(m, ps \ {p})
LeibnizDeterminant(m) == LeibnizSum(m, Perms(4))

\* C14: inverse panics for every 4x4 matrix whose determinant is zero, and
\* returns a 4x4 matrix, without panicking, for every matrix whose
\* determinant is not zero.
C14_InversePanicsIffSingular ==
    (returned # None /\ call[1].fn = "inverse") =>
        /\ LeibnizDeterminant(call[1].m) = 0 => Panicked(returned[1])
        /\ LeibnizDeterminant(call[1].m) # 0 =>
              /\ ~Panicked(returned[1])
              /\ DOMAIN returned[1] = 1..4
              /\ \A i \in 1..4 : DOMAIN returned[1][i] = 1..4

\* inverse has aborted on a matrix without a row or a column of zeros: its
\* third row is the sum of the first two.
C14_Witness ==
    /\ call = Some([fn |-> "inverse", m |-> Matrix_from_array(
               <<<<1, 2, 0, 1>>, <<0, 1, 1, 2>>, <<1, 3, 1, 3>>, <<2, 0, 1, 1>>>>)])
    /\ returned # None
    /\ Panicked(returned[1])

(***************************************************************************)
(* C15, C17: the operations on tuples.                                     *)
(***************************************************************************)
\* C15: dot, cross and reflect panic whenever one of their two operands is
\* not a vector (its w is not 0), and return a result, a number for dot and
\* a vector for the other two, only when both are vectors.
C15_VectorOperandsOrPanic ==
    (returned # None /\ call[1].fn \in {"dot", "cross", "reflect"}) =>
        /\ Panicked(returned[1]) <=> (call[1].a.w # 0 \/ call[1].b.w # 0)
        /\ (~Panicked(returned[1]) /\ call[1].fn # "dot") => returned[1].w = 0

\* reflect has panicked on a vector and a point.
C15_Witness ==
    /\ call = Some([fn |-> "reflect", a |-> vector_new(R(0), R(1), R(0)),
                    b |-> point_new(R(1), R(2), R(3))])
    /\ returned # None
    /\ Panicked(returned[1])

(***************************************************************************)
(* C16: the inverse of a transform undoes it.                              *)
(***************************************************************************)
\* C16: for every invertible M built from translations and scalings and
\* every point p, inverse(M) * (M * p) equals p (as == on tuples has it);
\* and the inverse of translation(x, y, z) takes (x, y, z) off a point.
C16_InverseUndoes ==
    /\ (returned # None /\ call[1].fn = "inverse * (m * p)") =>
            Tuple_eq(returned[1], call[1].p)
    /\ (returned # None /\ call[1].fn = "inverse * p") =>
            Tuple_eq(returned[1],
                     point_new(RSub(call[1].p.x, call[1].m[1][4]),
                               RSub(call[1].p.y, call[1].m[2][4]),
                               RSub(call[1].p.z, call[1].m[3][4])))

\* A scaling after a translation has been undone on the point of
\* tests::translate_point, which it had moved.
C16_Witness ==
    /\ call = Some([fn |-> "inverse * (m * p)",
                    m |-> MatMul(scale(R(2), R(4), Q(1, 2)), translation(R(5), R(-3), R(2))),
                    p |-> point_new(R(-3), R(4), R(5))])
    /\ MulTuple(call[1].m, call[1].p) = point_new(R(4), R(4), Q(7, 2))
    /\ returned = Some(point_new(R(-3), R(4), R(5)))

\* C17: + and - on tuples work on each of x, y, z and w, so that a point
\* less a point is a vector, a point less a vector a point and a vector
\* less a vector a vector; and a translation times a vector is that vector.
C17_ComponentWise ==
    /\ (returned # None /\ call[1].fn = "+") =>
          returned[1] = [x |-> call[1].a.x + call[1].b.x, y |-> call[1].a.y + call[1].b.y,
                         z |-> call[1].a.z + call[1].b.z, w |-> call[1].a.w + call[1].b.w]
    /\ (returned # None /\ call[1].fn = "-") =>
          /\ returned[1] = [x |-> call[1].a.x - call[1].b.x, y |-> call[1].a.y - call[1].b.y,
                            z |-> call[1].a.z - call[1].b.z, w |-> call[1].a.w - call[1].b.w]
          /\ (call[1].a.w = R(1) /\ call[1].b.w = R(1)) => returned[1].w = R(0)
          /\ (call[1].a.w = R(1) /\ call[1].b.w = R(0)) => returned[1].w = R(1)
          /\ (call[1].a.w = R(0) /\ call[1].b.w = R(0)) => returned[1].w = R(0)
    /\ (returned # None /\ call[1].fn = "m * t" /\ call[1].t.w = R(0)) =>
          returned[1] = call[1].t

\* A point less a point has given a vector.
C17_Witness ==
    /\ call = Some([fn |-> "-", a |-> point_new(R(3), R(-2), R(5)),
                    b |-> point_new(R(1), R(2), R(3))])
    /\ returned = Some(vector_new(R(2), R(-4), R(2)))

(***************************************************************************)
(* C18, C19, C20: reflected_colour, refracted_colour and shade_hit, on the *)
(* steps of SpecShade.                                                     *)
(***************************************************************************)
\* The step has ended the call on top of the stack with the value v, and
\* has made no call.
ReturnsAtOnce(v) == stack' = Popped /\ ret' = Some(v)

\* The step has made one call, colour_at(w, r, remaining_recursions), from
\* the call on top of the stack, which now waits for it.
CastsOneRay(r, remaining_recursions) ==
    /\ Len(stack') = Len(stack) + 1
    /\ SubSeq(stack', 1, Len(stack)) = [stack EXCEPT ![Len(stack)].pc = "colour_at"]
    /\ stack'[Len(stack')].fn = "colour_at"
    /\ stack'[Len(stack')].pc = "enter"
    /\ stack'[Len(stack')].r = Some(r)
    /\ stack'[Len(stack')].remaining_recursions = remaining_recursions

\* C18: reflected_colour returns black, casting no ray, when
\* remaining_recursions is 0 or the reflectivity of the material is 0;
\* otherwise it casts exactly one ray, from over_point along the reflection
\* vector, with colour_at at remaining_recursions - 1, and returns what that
\* gave scaled by the reflectivity.
C18_ReflectedColour ==
    [][ /\ Running("reflected_colour", "enter") =>
            LET c == Top.c[1]
                reflectivity == world.objects[c.object].material.reflectivity
            IN  IF Top.remaining_recursions = 0 \/ reflectivity = 0
                THEN ReturnsAtOnce([red |-> 0, green |-> 0, blue |-> 0])
                ELSE CastsOneRay([origin |-> c.over_point, direction |-> c.reflect_vec],
                                 Top.remaining_recursions - 1)
        /\ Running("reflected_colour", "colour_at") =>
            LET reflectivity == world.objects[Top.c[1].object].material.reflectivity
            IN  ReturnsAtOnce([red |-> RMul(ret[1].red, reflectivity),
                               green |-> RMul(ret[1].green, reflectivity),
                               blue |-> RMul(ret[1].blue, reflectivity)])
      ]_vars

\* A reflected_colour with one recursion left waits for the colour_at it has
\* called with none left, on a ray that leaves from above the surface.
C18_Witness ==
    /\ Len(stack) >= 2
    /\ stack[Len(stack) - 1].fn = "reflected_colour"
    /\ stack[Len(stack) - 1].pc = "colour_at"
    /\ stack[Len(stack) - 1].remaining_recursions = 1
    /\ Top.fn = "colour_at" /\ Top.pc = "enter" /\ Top.remaining_recursions = 0
    /\ Top.r[1].origin = stack[Len(stack) - 1].c[1].over_point
    /\ Top.r[1].origin # stack[Len(stack) - 1].c[1].point

\* C19: refracted_colour returns black, casting no ray, when the
\* transparency of the material is 0, or remaining_recursions is 0, or
\* sin2_t > 1 (total internal reflection); otherwise it casts exactly one
\* ray, from under_point, with colour_at at remaining_recursions - 1, and
\* returns what that gave scaled by the transparency.
C19_RefractedColour ==
    [][ /\ Running("refracted_colour", "enter") =>
            LET c == Top.c[1]
                transparency == world.objects[c.object].material.transparency
            IN  IF transparency = 0 \/ Top.remaining_recursions = 0 \/ sin2_t(c) > R(1)
                THEN ReturnsAtOnce([red |-> 0, green |-> 0, blue |-> 0])
                ELSE /\ CastsOneRay(stack'[Len(stack')].r[1], Top.remaining_recursions - 1)
                     /\ stack'[Len(stack')].r[1].origin = c.under_point
        /\ Running("refracted_colour", "colour_at") =>
            LET transparency == world.objects[Top.c[1].object].material.transparency
            IN  ReturnsAtOnce([red |-> RMul(ret[1].red, transparency),
                               green |-> RMul(ret[1].green, transparency),
                               blue |-> RMul(ret[1].blue, transparency)])
      ]_vars

\* A refracted_colour with budget left has returned black from inside a
\* transparent shape, the ray meeting its surface at too flat an angle.
C19_Witness ==
    /\ ret = Some(Colour_black)
    /\ stack # <<>>
    /\ Running("shade_hit", "refracted_colour")
    /\ world.objects[Top.c[1].object].material.transparency > 0
    /\ Top.remaining_recursions > 0
    /\ sin2_t(Top.c[1]) > R(1)

\* calculate_lighting of the hit c summed over the first k lights of w.
RECURSIVE LightSum(_, _, _)
LightSum(w, c, k) ==
    IF k = 0 THEN [red |-> 0, green |-> 0, blue |-> 0]
    ELSE Colour_add(LightSum(w, c, k - 1),
                    calculate_lighting(w.objects[c.object].material, w.lights[k],
                                       c.over_point, c.eye_vec, c.normal,
                                       is_shadowed(w, c.over_point)))

\* C20: shade_hit returns the sum of calculate_lighting over every light of
\* the world, plus reflected_colour plus refracted_colour; when the material
\* has both reflectivity > 0 and transparency > 0 the two are weighted, the
\* sum being lights + reflectance * reflected + (1 - reflectance) * refracted
\* with reflectance = schlick.
C20_ShadeHitSum ==
    [][ Running("shade_hit", "refracted_colour") =>
            LET c == Top.c[1]
                material == world.objects[c.object].material
                lights == LightSum(world, c, Len(world.lights))
                reflected == reflected_colour(world, c, Top.remaining_recursions)
                refracted == refracted_colour(world, c, Top.remaining_recursions)
                reflectance == schlick(c)
            IN  ReturnsAtOnce(
                    IF material.reflectivity > 0 /\ material.transparency > 0
                    THEN Colour_add(Colour_add(lights, Colour_scale(reflected, reflectance)),
                                    Colour_scale(refracted, R(1) - reflectance))
                    ELSE Colour_add(Colour_add(lights, reflected), refracted))
      ]_vars

\* shade_hit is about to return on a material that reflects and lets light
\* through, with a reflected and a refracted colour that are not black and a
\* reflectance strictly between 0 and 1.
C20_Witness ==
    /\ Running("shade_hit", "refracted_colour")
    /\ ret # None
    /\ world.objects[Top.c[1].object].material.reflectivity > 0
    /\ world.objects[Top.c[1].object].material.transparency > 0
    /\ Top.reflected # Colour_black
    /\ ret[1] # Colour_black
    /\ schlick(Top.c[1]) > 0 /\ schlick(Top.c[1]) < R(1)

(***************************************************************************)
(* C21: the transform list of the scene file.                              *)
(***************************************************************************)
\* The chained builder of one entry, called on the matrix self.
Builder(self, o) ==
    CASE o.op = "rotate-x" -> Matrix_rotate_x(self, o.args[1])
      [] o.op = "rotate-y" -> Matrix_rotate_y(self, o.args[1])
      [] o.op = "rotate-z" -> Matrix_rotate_z(self, o.args[1])
      [] o.op = "scale" -> Matrix_scale(self, R(o.args[1]), R(o.args[2]), R(o.args[3]))
      [] o.op = "translate" -> Matrix_translate(self, R(o.args[1]), R(o.args[2]), R(o.args[3]))

\* Matrix::identity().op1().op2()...opn()
RECURSIVE Chained(_)
Chained(ops) ==
    IF ops = <<>> THEN Matrix_identity
    ELSE Builder(Chained(SubSeq(ops, 1, Len(ops) - 1)), ops[Len(ops)])

\* An entry of the list as an operation of a chain.
AsOperation(o) ==
    [op |-> CASE o.op = "rotate-x" -> "rotate_x" [] o.op = "rotate-y" -> "rotate_y"
              [] o.op = "rotate-z" -> "rotate_z" [] OTHER -> o.op,
     args |-> o.args]

\* C21: parse_transforms of the list [op1, .., opn] returns the matrix of the
\* chained builders Matrix::identity().op1()...opn(), and that matrix does to
\* a point what the operations do in list order, op1 first and opn last.
C21_ListOrder ==
    (returned # None /\ call[1].fn = "parse_transforms") =>
        /\ returned[1] = Chained(call[1].ts)
        /\ \A p \in ProbeTuples :
               MulTuple(returned[1], p) =
                   MoveInOrder([k \in DOMAIN call[1].ts |-> AsOperation(call[1].ts[k])], p)

\* The list of tests::reads_in_several_transforms and the matrix the test
\* expects for it.
C21_Witness ==
    /\ call = Some([fn |-> "parse_transforms",
                    ts |-> << [op |-> "rotate-x", args |-> <<1>>],
                              [op |-> "scale", args |-> <<5, 5, 5>>],
                              [op |-> "translate", args |-> <<10, 5, 7>> ] >>])
    /\ returned = Some(Matrix_from_array(<< <<5, 0, 0, 10>>, <<0, 0, -5, 5>>,
                                            <<0, 5, 0, 7>>, <<0, 0, 0, 1>> >>))

(***************************************************************************)
(* C22: calculate_lighting in shadow and with the light behind the         *)
(* surface.                                                                *)
(***************************************************************************)
\* effective colour x material.ambient of a call of calculate_lighting
AmbientAlone(c) ==
    Colour_scale(Colour_mul(c.material.colour, c.light.intensity), c.material.ambient)

\* light_vec . normal < 0: the light is behind the surface
LightBehind(c) ==
    RLt(Tuple_dot(Tuple_normalise(Tuple_sub(c.light.position, c.posn)), c.normal), R(0))

\* C22: calculate_lighting returns the ambient term alone, the effective
\* colour times material.ambient, whenever in_shadow is true, whatever the
\* light position, eye vector and normal are; and it returns the ambient term
\* alone when in_shadow is false and the light is behind the surface.
C22_AmbientAlone ==
    (returned # None /\ call[1].fn = "calculate_lighting") =>
        LET c == call[1].c
        IN  /\ c.in_shadow => returned[1] = AmbientAlone(c)
            /\ (~c.in_shadow /\ LightBehind(c)) => returned[1] = AmbientAlone(c)

\* tests::lighting_surface_in_shadow: the light in front of the surface,
\* which would be lit at 1.9, and 0.1 returned.
C22_Witness ==
    /\ returned = Some(Colour_new(Q(1, 10), Q(1, 10), Q(1, 10)))
    /\ call[1].fn = "calculate_lighting"
    /\ call[1].c.in_shadow
    /\ call[1].c.material = Material_default
    /\ call[1].c.light = PointLight_new(Colour_new(R(1), R(1), R(1)),
                                         point_new(R(0), R(0), R(-10)))
    /\ call[1].c.normal = vector_new(R(0), R(0), R(-1))

(***************************************************************************)
(* C23: the flip of the normal in prepare_computations.                    *)
(***************************************************************************)
\* The normal of the precomputation c as normal_at gives it, before any flip.
UnflippedNormal(c) == Shape_normal_at(world.objects[c.object], c.point)

\* C23: prepare_computations sets inside and negates the normal exactly when
\* the unflipped normal has a negative dot product with the eye vector, and
\* reflect_vec, over_point and under_point are computed from the normal after
\* the flip.
C23_FlipThenDerive ==
    (rpc = "prepared") =>
        LET c == comps[1]
            unflipped == UnflippedNormal(c)
            facing_away == RLt(Tuple_dot(unflipped, Tuple_negate(ray.direction)), R(0))
        IN  /\ c.inside <=> facing_away
            /\ c.normal = IF facing_away THEN Tuple_negate(unflipped) ELSE unflipped
            /\ c.reflect_vec = Tuple_reflect(c.normal, ray.direction)
            /\ c.over_point = Tuple_add(c.point, Tuple_scale(EPSILON_lighting, c.normal))
            /\ c.under_point = Tuple_sub(c.point, Tuple_scale(EPSILON_lighting, c.normal))

\* tests::hit_when_intersection_inside_object: the ray from the centre of the
\* unit sphere leaves it at (0, 0, 1), where the normal is flipped to
\* (0, 0, -1) and over_point is inside the sphere.
C23_Witness ==
    /\ rpc = "prepared"
    /\ comps[1].inside
    /\ comps[1].point = point_new(R(0), R(0), R(1))
    /\ comps[1].normal = vector_new(R(0), R(0), R(-1))
    /\ UnflippedNormal(comps[1]) = vector_new(R(0), R(0), R(1))
    /\ comps[1].over_point = point_new(R(0), R(0), RSub(R(1), EPSILON_lighting))

(***************************************************************************)
(* C24: the recursion budget, a usize, along the calls.                    *)
(***************************************************************************)
\* The positions in the stack of the calls of colour_at.
ColourAtFrames == {k \in DOMAIN stack : stack[k].fn = "colour_at"}

\* C24: the budget never underflows.  Every nested colour_at was called by a
\* reflected_colour or refracted_colour whose own budget was above 0 and has
\* that budget minus 1; shade_hit, reflected_colour and refracted_colour have
\* the budget of their caller; so every budget is at least 0 and the budgets
\* of the colour_at calls of a chain are strictly decreasing.
C24_BudgetNeverUnderflows ==
    /\ \A k \in DOMAIN stack : stack[k].remaining_recursions >= 0
    /\ \A k \in DOMAIN stack \ {1} :
          IF stack[k].fn = "colour_at"
          THEN /\ stack[k - 1].fn \in {"reflected_colour", "refracted_colour"}
               /\ stack[k - 1].remaining_recursions > 0
               /\ stack[k].remaining_recursions = stack[k - 1].remaining_recursions - 1
          ELSE stack[k].remaining_recursions = stack[k - 1].remaining_recursions
    /\ \A j, k \in ColourAtFrames :
          j < k => stack[j].remaining_recursions > stack[k].remaining_recursions

\* A chain through a reflection and a refraction has used the whole budget,
\* and refracted_colour is entered for a transparent surface with 0 left:
\* the place where remaining_recursions - 1 would underflow.
C24_Witness ==
    /\ Running("refracted_colour", "enter")
    /\ Top.remaining_recursions = 0
    /\ world.objects[Top.c[1].object].material.transparency # R(0)
    /\ ~RGt(sin2_t(Top.c[1]), R(1))
    /\ \E k \in DOMAIN stack : stack[k].fn = "reflected_colour" /\ stack[k].pc = "colour_at"
    /\ \E k \in DOMAIN stack : stack[k].fn = "refracted_colour" /\ stack[k].pc = "colour_at"

(***************************************************************************)
(* C25: the list of entered shapes of the containment walk.                *)
(***************************************************************************)
\* The position in inters of the intersection prepare_computations was given:
\* the pass at which the walk stops.
HitPass ==
    CHOOSE j \in DOMAIN inters :
        /\ inters[j] = [t |-> comps[1].t, object |-> comps[1].object]
        /\ \A m \in 1..(j - 1) : inters[m] # [t |-> comps[1].t, object |-> comps[1].object]

\* C25: after every pass of the containment walk of prepare_computations the
\* list of entered shapes holds no shape twice, holds a shape exactly when an
\* odd number of its intersections have been processed, and holds the shapes
\* in the order they were entered (a removal from the middle keeps the
\* relative order of the rest); n1 and n2 are read from that list before and
\* after the last pass.
C25_EnteredList ==
    (rpc = "prepared") =>
        /\ \A n \in 0..HitPass :
              LET entered == EnteredAfter(inters, n)
              IN  /\ \A a, b \in DOMAIN entered : entered[a] = entered[b] => a = b
                  /\ {entered[a] : a \in DOMAIN entered} = Open(inters, n)
                  /\ \A a, b \in DOMAIN entered :
                        a < b => LastCrossing(inters, n, entered[a])
                                     < LastCrossing(inters, n, entered[b])
        /\ comps[1].n1 = LastIndex(world.objects, EnteredAfter(inters, HitPass - 1))
        /\ comps[1].n2 = LastIndex(world.objects, EnteredAfter(inters, HitPass))

\* The ray leaves the first sphere of ChainWorld while inside the other two:
\* the list <<1, 2, 3>> loses its first element and 2, 3 keep their order, so
\* n2 is the index 2.5 of the third sphere.
C25_Witness ==
    /\ rpc = "prepared"
    /\ world = ChainWorld /\ ray = AlongZ(-4)
    /\ comps[1].object = 1 /\ HitPass = 4
    /\ EnteredAfter(inters, 3) = <<1, 2, 3>>
    /\ EnteredAfter(inters, 4) = <<2, 3>>
    /\ comps[1].n1 = Q(5, 2) /\ comps[1].n2 = Q(5, 2)

(***************************************************************************)
(* C26: n1 and n2 of a hit that is in the list of intersections.           *)
(***************************************************************************)
\* 1.0 and the refractive indices of the shapes occurring in inters at or
\* before the intersection prepare_computations was given.
IndicesUpToHit ==
    {R(1)} \cup {world.objects[inters[j].object].material.refractive_index : j \in 1..HitPass}

\* C26: prepare_computations, given an element of the list of intersections,
\* returns n1 and n2 that are each 1.0 or the refractive index of a shape
\* occurring in the list at or before that element; neither is left at the
\* placeholder 0.0, so the n1 / n2 of refracted_colour does not divide by
\* zero.
C26_IndicesAreSet ==
    (rpc = "prepared") =>
        /\ \E j \in DOMAIN inters : inters[j] = [t |-> comps[1].t, object |-> comps[1].object]
        /\ comps[1].n1 \in IndicesUpToHit
        /\ comps[1].n2 \in IndicesUpToHit
        /\ comps[1].n1 # R(0)
        /\ comps[1].n2 # R(0)
        /\ n_ratio(comps[1]) = RDiv(comps[1].n1, comps[1].n2)

\* The last intersection of the ray through the three spheres of ChainWorld:
\* the walk has gone through the whole list and the ray is inside of nothing
\* any more, so n2 is the 1.0 of air and n1 the index of the third sphere.
C26_Witness ==
    /\ rpc = "prepared"
    /\ world = ChainWorld /\ ray = AlongZ(-4)
    /\ HitPass = Len(inters) /\ Len(inters) = 6
    /\ EnteredAfter(inters, HitPass) = <<>>
    /\ comps[1].n1 = Q(5, 2) /\ comps[1].n2 = R(1)

(***************************************************************************)
(* C27: the two tests of total internal reflection.                        *)
(***************************************************************************)
\* out + reflected of shade_hit for some colours of its three terms: the
\* reflected term at full weight and no refracted term.
ReflectedAtFullWeight(c) ==
    \A out, reflected, refracted \in {Colour_new(R(0), R(0), R(0)),
                                      Colour_new(Q(1, 2), Q(1, 4), R(1))} :
        ShadeSum(GlassMirrorWorld, c, out, reflected, refracted) = Colour_add(out, reflected)

\* C27 as stated: for a precomputation with |eye . normal| <= 1 the
\* sin2_t > 1 of refracted_colour holds exactly when schlick takes its
\* n1 > n2 branch and returns 1.0; sin2_t > 1 implies n1 > n2, and the
\* surface is then shaded with the reflected term at full weight and the
\* refracted term at weight 0.
C27_TirIffSchlickReturnsOne ==
    (returned # None /\ call[1].fn = "schlick" /\ RLe(RAbs(cos_i(call[1].c)), R(1))) =>
        LET c == call[1].c
        IN  /\ RGt(sin2_t(c), R(1)) <=> (RGt(c.n1, c.n2) /\ returned[1].reflectance = R(1))
            /\ RGt(sin2_t(c), R(1)) => RGt(c.n1, c.n2)
            /\ RGt(sin2_t(c), R(1)) => ReflectedAtFullWeight(c)

\* C27, amended: the sin2_t > 1 of refracted_colour holds exactly when
\* schlick leaves by the return 1.0 inside its n1 > n2 branch; sin2_t > 1
\* implies n1 > n2, schlick then returns 1.0 and the surface is shaded with
\* the reflected term at full weight and the refracted term at weight 0.
C27_TirIffEarlyReturn ==
    (returned # None /\ call[1].fn = "schlick" /\ RLe(RAbs(cos_i(call[1].c)), R(1))) =>
        LET c == call[1].c
        IN  /\ RGt(sin2_t(c), R(1)) <=> returned[1].early_return
            /\ RGt(sin2_t(c), R(1)) => RGt(c.n1, c.n2)
            /\ RGt(sin2_t(c), R(1)) => returned[1].reflectance = R(1)
            /\ RGt(sin2_t(c), R(1)) => ReflectedAtFullWeight(c)

\* tests::shlick_approximation_under_total_internal_reflection: from glass
\* into air at 45 degrees, sin2_t = 1.125 and the reflectance is 1.0.
C27_Witness ==
    /\ call[1].fn = "schlick"
    /\ call[1].c.n1 = Q(3, 2) /\ call[1].c.n2 = R(1)
    /\ cos_i(call[1].c) = Q(181, 256)
    /\ RGt(sin2_t(call[1].c), R(1))
    /\ returned = Some([reflectance |-> R(1), early_return |-> TRUE])

\* The critical angle: sin2_t is 1.0, not above it, and schlick, in its
\* n1 > n2 branch, returns 1.0 from its last line with cos_t = 0.
C27_CriticalAngle ==
    /\ call[1].fn = "schlick"
    /\ call[1].c.n1 = R(2) /\ call[1].c.n2 = R(1)
    /\ sin2_t(call[1].c) = R(1)
    /\ returned = Some([reflectance |-> R(1), early_return |-> FALSE])

(***************************************************************************)
(* SpecCamera: one camera and the calls of half_width, half_height,        *)
(* pixel_size and ray_for_pixel made on it, in any order.  call is the     *)
(* list of the calls made so far: the method, the camera it was called on  *)
(* and what it returned.                                                   *)
(***************************************************************************)
InitCamera ==
    /\ IdleMatrix /\ IdleRays /\ IdleShade
    /\ \E hsize, vsize \in 1..MaxSize, fov \in {0, 1} :
            cam = Camera_new(hsize, vsize, fov, Matrix_identity)
    /\ image = Canvas_new(0, 0)
    /\ todo = <<>>
    /\ written = {}
    /\ start = None
    /\ expected = <<>>
    /\ rdpc = "new"
    /\ call = <<>>
    /\ returned = None

\* What a call of a method on cam leaves behind: r is its result and the
\* camera after it.
Called(fn, r) ==
    /\ Len(call) < MaxCalls
    /\ cam' = r.self
    /\ returned' = Some(r.out)
    /\ call' = Append(call, [fn |-> fn, self |-> cam, out |-> r.out])
    /\ UNCHANGED <<image, todo, written, start, expected, rdpc>>

\* c.half_width()
CallHalfWidth == Called("half_width", Camera_half_width(cam))
\* c.half_height()
CallHalfHeight == Called("half_height", Camera_half_height(cam))
\* c.pixel_size()
CallPixelSize == Called("pixel_size", Camera_pixel_size(cam))
\* c.ray_for_pixel(x, y) for a corner of the image
CallRayForPixel ==
    \E x \in {0, cam.hsize - 1}, y \in {0, cam.vsize - 1} :
        Called("ray_for_pixel", ray_for_pixel(cam, x, y))

NextCamera ==
    \/ CallHalfWidth /\ UNCHANGED <<matVars, rayVars, shadeVars>>
    \/ CallHalfHeight /\ UNCHANGED <<matVars, rayVars, shadeVars>>
    \/ CallPixelSize /\ UNCHANGED <<matVars, rayVars, shadeVars>>
    \/ CallRayForPixel /\ UNCHANGED <<matVars, rayVars, shadeVars>>

SpecCamera == InitCamera /\ [][NextCamera]_vars

(***************************************************************************)
(* C28: square pixels.                                                     *)
(***************************************************************************)
\* float_close of the tests of world.rs, its EPSILON scaled to the numbers
\* of the model: 2^-8.
float_close(x, y) == RLt(RAbs(RSub(x, y)), Q(1, 256))

\* C28: the pixels of a camera are square: once half_width, half_height and
\* pixel_size have been computed, 2 * half_width / hsize and
\* 2 * half_height / vsize are both pixel_size, whether hsize >= vsize or
\* not, and the camera with hsize and vsize swapped has the same pixel_size.
C28_SquarePixels ==
    (cam.half_width # None /\ cam.half_height # None /\ cam.pixel_size # None) =>
        /\ float_close(RDiv(RMul(R(2), cam.half_width[1]), R(cam.hsize)), cam.pixel_size[1])
        /\ float_close(RDiv(RMul(R(2), cam.half_height[1]), R(cam.vsize)), cam.pixel_size[1])
        /\ float_close(Camera_pixel_size(Camera_new(cam.vsize, cam.hsize, cam.field_of_view,
                                                    cam.transform)).out,
                       cam.pixel_size[1])

\* An image higher than wide, as in tests::camera_pixel_size_vertical, with
\* the three values computed: the half height is the whole half view 1.0 and
\* the pixels are 2/3 wide and high.
C28_Witness ==
    /\ cam.hsize = 2 /\ cam.vsize = 3 /\ cam.field_of_view = 1
    /\ cam.half_height = Some(R(1))
    /\ cam.half_width # None /\ float_close(cam.half_width[1], Q(2, 3))
    /\ cam.pixel_size # None /\ float_close(cam.pixel_size[1], Q(2, 3))

(***************************************************************************)
(* C29: the three memoised values of the camera.                           *)
(***************************************************************************)
\* The camera after the k-th call.
CameraAfter(k) == IF k = Len(call) THEN cam ELSE call[k + 1].self

\* C29: half_width, half_height and pixel_size are idempotent.  Every call of
\* one of them on the camera returns the same value; a call that finds no
\* stored value stores the one it returns and changes nothing of hsize,
\* vsize, field_of_view and transform; a call that finds a stored value
\* returns it and changes no field of the camera.
C29_Idempotent ==
    /\ \A j, k \in DOMAIN call :
          (call[j].fn = call[k].fn /\ call[k].fn # "ray_for_pixel") => call[j].out = call[k].out
    /\ \A k \in DOMAIN call :
          LET before == call[k].self
              after == CameraAfter(k)
              stored == CASE call[k].fn = "half_width" -> <<before.half_width, after.half_width>>
                          [] call[k].fn = "half_height" -> <<before.half_height, after.half_height>>
                          [] call[k].fn = "pixel_size" -> <<before.pixel_size, after.pixel_size>>
                          [] OTHER -> <<None, None>>
          IN  /\ after.hsize = before.hsize /\ after.vsize = before.vsize
              /\ after.field_of_view = before.field_of_view
              /\ after.transform = before.transform
              /\ call[k].fn # "ray_for_pixel" =>
                    IF stored[1] = None
                    THEN stored[2] = Some(call[k].out)
                    ELSE call[k].out = stored[1][1] /\ after = before

\* pixel_size has been called three times on a camera that held no value:
\* the first call stored 2/3, the second and third returned it and left the
\* camera as it was.
C29_Witness ==
    /\ Len(call) = 3
    /\ \A k \in 1..3 : call[k].fn = "pixel_size" /\ float_close(call[k].out, Q(2, 3))
    /\ call[1].self.pixel_size = None
    /\ call[2].self.pixel_size = Some(call[1].out)
    /\ call[3].self = call[2].self /\ cam = call[2].self

(***************************************************************************)
(* C30: the w of a normal.                                                 *)
(***************************************************************************)
\* C30: Shape::normal_at returns a vector, w = 0, for a sphere and for a
\* plane under every invertible affine transform, translations included,
\* whatever the w of the normal is before normalise (the local normal of
\* the plane is the point (0, 1, 0), w = 1, and the transposed inverse of a
\* translation gives w another value still); x, y and z are those of the
\* normal before normalise, divided by its length.
C30_NormalIsVector ==
    (returned # None /\ call[1].fn = "normal_at") =>
        LET n == WorldSpaceNormal(call[1].c)
            mag == Tuple_magnitude(n)
        IN  /\ returned[1].w = R(0)
            /\ is_vector(returned[1])
            /\ returned[1] = vector_new(RDiv(n.x, mag), RDiv(n.y, mag), RDiv(n.z, mag))

\* A plane translated by (5, -3, 2): the local normal has w = 1, the normal
\* in world space has w = 4 before normalise, and (0, 1, 0) with w = 0 is
\* returned.
C30_Witness ==
    /\ call[1].fn = "normal_at"
    /\ call[1].c.shape = "Plane"
    /\ call[1].c.transform = translation(R(5), R(-3), R(2))
    /\ plane_normal_at.w = R(1)
    /\ WorldSpaceNormal(call[1].c).w = R(4)
    /\ returned = Some(vector_new(R(0), R(1), R(0)))

====
